---- MODULE Spec2Model ----
(***************************************************************************)
(* Model of the Solana -> Unicity bridge: the proof validator              *)
(* (proof-validator.ts), the SDK minting path (unicity-sdk-simple.ts),     *)
(* the independent token verifier (validate-token.ts) and the bridge       *)
(* monitor (demo-bridge-monitor.ts).                                       *)
(*                                                                         *)
(* Three specifications share the variables:                               *)
(*   Spec          a run of BridgeMonitor (poll + log callbacks)           *)
(*   SpecMint      calls of mintBridgedTokenWithSDK followed by            *)
(*                 validateToken on the artifacts they wrote               *)
(*   SpecValidate  validateGenesisProof applied to bounded inputs          *)
(*                                                                         *)
(* Strings are modelled symbolically.  A recipient string is a record      *)
(* [prefix, hex, len, id]; other strings are atoms or tuples of atoms;     *)
(* SHA-256 is the free constructor Hash.                                   *)
(***************************************************************************)
EXTENDS Integers, Sequences, FiniteSets, TLC

VARIABLES
    \* ---- BridgeMonitor
    processedTransactions, lastCheckedSlot, processedEvents, isRunning,
    exited, savedFile, tasks, delivered, wallet,
    mintCalls, mintOutcomes, pendingRaised, aborted,
    \* ---- target network and output directory (monitor and mint)
    accepted, outputFiles,
    \* ---- SpecMint
    calls, verdict,
    \* ---- SpecValidate
    vProof, vRpc, vPc, vResult, vChain,
    \* ---- SpecLock
    lockArg, lockPc, lockRecipient,
    \* ---- SpecVerify
    vfInput, vfVerdict, vfVerdict004,
    \* ---- SpecParse
    pInput, pResult,
    \* ---- SpecLifecycle
    signalled,
    \* ---- SpecDemo
    demoPc, recentEvent, eventProcessed, freshEventProcessed, eventPromise,
    freshEventPromise, needsFreshTransaction, lockSolCalled, external, ownEvent

monitorVars == <<processedTransactions, lastCheckedSlot, processedEvents, isRunning,
                 exited, savedFile, tasks, delivered, wallet,
                 mintCalls, mintOutcomes, pendingRaised, aborted>>
networkVars == <<accepted, outputFiles>>
mintVars == <<calls, verdict>>
validateVars == <<vProof, vRpc, vPc, vResult, vChain>>
lockVars == <<lockArg, lockPc, lockRecipient>>
verifyVars == <<vfInput, vfVerdict, vfVerdict004>>
parseVars == <<pInput, pResult>>
lifecycleVars == <<signalled>>
demoVars == <<demoPc, recentEvent, eventProcessed, freshEventProcessed, eventPromise,
             freshEventPromise, needsFreshTransaction, lockSolCalled, external, ownEvent>>
vars == <<monitorVars, networkVars, mintVars, validateVars, lockVars, verifyVars, parseVars, lifecycleVars, demoVars>>

NULL == "null"

\* An optional value (T | null): None, or Some(x)
None == <<>>
Some(x) == <<x>>
Val(o) == o[1]

-----------------------------------------------------------------------------
(* Strings                                                                 *)

\* A recipient-like string: an optional "[SHA256]" tag followed by `len`
\* characters, all of them hex digits iff `hex`; `id` tells bodies apart.
Rcp(prefix, hex, len, id) == [prefix |-> prefix, hex |-> hex, len |-> len, id |-> id]

SHA256_TAG == "[SHA256]"

\* /^[a-f0-9]{64}$/i.test(s)
IsHex64(s) == s.prefix = "" /\ s.hex /\ s.len = 64

\* /^[a-f0-9]{64}$/i.test(r) ? `[SHA256]${r}` : r
restoreTag(r) == IF IsHex64(r) THEN Rcp(SHA256_TAG, r.hex, r.len, r.id) ELSE r

\* s.length === 0
IsEmptyStr(s) == s.prefix = "" /\ s.len = 0

\* crypto.createHash('sha256').update(x).digest()
Hash(x) == <<"sha256", x>>

\* n.toString() / Buffer.toString('hex'): the text of a value
ToStr(x) == <<"str", x>>

-----------------------------------------------------------------------------
(* SolanaLightClient.verifyBlockHash                                       *)

\* /^[1-9A-HJ-NP-Za-km-z]{32,44}$/.test(blockHash)
BlockHashFormatOk(blockHash) == blockHash \in {"H1", "H2"}

PENDING_MIN_AGE == 10

\* A variant of the fallback path whose pending window includes the
\* threshold age itself
verifyBlockHash_PendingAtThreshold(blockHash, blockHeight, rpc) ==
    IF rpc.block \notin {NULL, "THROW"}
    THEN IF rpc.block = blockHash THEN "TRUE" ELSE "FALSE"
    ELSE IF ~BlockHashFormatOk(blockHash) THEN "FALSE"
    ELSE IF rpc.finalizedSlot = None THEN "FALSE"
    ELSE IF Val(rpc.finalizedSlot) - blockHeight <= PENDING_MIN_AGE THEN "PENDING"
    ELSE "TRUE"

\* The three outcomes of verifyBlockHash: it returns true, returns false, or
\* throws a VALIDATION_PENDING error.  rpc.block is the finalized block the
\* RPC gives for blockHeight (a blockhash, NULL, or "THROW" when getBlock
\* rejects); rpc.finalizedSlot is getSlot('finalized') (None when it rejects).
verifyBlockHash(blockHash, blockHeight, rpc) ==
    IF rpc.block \notin {NULL, "THROW"}
    THEN IF rpc.block = blockHash THEN "TRUE" ELSE "FALSE"
    ELSE IF ~BlockHashFormatOk(blockHash) THEN "FALSE"
    ELSE IF rpc.finalizedSlot = None THEN "FALSE"
    ELSE LET blockAge == Val(rpc.finalizedSlot) - blockHeight IN
         IF blockAge < 0 THEN "PENDING"
         ELSE IF blockAge < PENDING_MIN_AGE THEN "PENDING"
         ELSE "TRUE"

-----------------------------------------------------------------------------
(* UnicityProofValidator                                                   *)

\* A variant of validateLockEvent in which the nonce is a plain number, so
\* that `!event.nonce` also rejects the nonce 0
validateLockEventThrows_NonceFalsy(event) ==
    \/ event.lockId.len # 32
    \/ event.user = NULL
    \/ event.amount <= 0
    \/ IsEmptyStr(event.unicityRecipient)
    \/ event.nonce <= 0
    \/ event.timestamp <= 0

\* validateLockEvent: TRUE iff it throws.  lockId is [len, id] (a missing
\* lockId has len 0), user is NULL when missing; amount, nonce and timestamp
\* are BN objects, which are always truthy, so only their values decide; a
\* missing recipient behaves as the empty string.
validateLockEventThrows(event) ==
    \/ event.lockId.len # 32
    \/ event.user = NULL
    \/ event.amount <= 0
    \/ IsEmptyStr(event.unicityRecipient)
    \/ event.nonce < 0
    \/ event.timestamp <= 0

VALID_STATUSES == {"processed", "confirmed", "finalized"}

\* verifySignatureStatus(st): st.err is NULL or an error payload
verifySignatureStatus(st) ==
    IF st.err # NULL THEN FALSE
    ELSE IF st.confirmationStatus \notin VALID_STATUSES THEN FALSE
    ELSE TRUE

\* Step 3 of validateGenesisProof: the guard on proof.signatureStatus and the
\* call of verifySignatureStatus
\* (an optional record; confirmationStatus is NULL when absent,
\* confirmations and slot are optional numbers)
signatureStatusCheck(ost) ==
    IF /\ ost # None
       /\ Val(ost).confirmationStatus # NULL
       /\ Val(ost).confirmations # None
       /\ Val(ost).slot # None
    THEN verifySignatureStatus(Val(ost))
    ELSE FALSE

\* validateTransactionExists: TRUE iff it throws.  rpc.tx is what
\* getTransaction gives (NULL, "THROW", or whether the account keys hold the
\* bridge program), rpc.status what getSignatureStatus gives.
validateTransactionExistsThrows(rpc) ==
    IF rpc.tx = "THROW" THEN TRUE
    ELSE IF rpc.tx = NULL
    THEN rpc.status \in {NULL, "ERR", "THROW"}
    ELSE rpc.tx # "INVOKES"

\* The genesis proof validateGenesisProof builds
genesisProofOf(proof, blockVerified, signatureStatusVerified, now) ==
    [ lockEvent |->
        [ lockId |-> ToStr(proof.event.lockId),
          user |-> ToStr(proof.event.user),
          amount |-> ToStr(proof.event.amount),
          unicityRecipient |-> proof.event.unicityRecipient,
          nonce |-> ToStr(proof.event.nonce),
          timestamp |-> ToStr(proof.event.timestamp) ],
      solanaTransaction |->
        [ signature |-> proof.transaction.signature,
          transaction |-> proof.transaction.fullTransaction,
          blockHeight |-> proof.blockHeight,
          slot |-> proof.slot,
          blockTime |-> proof.transaction.blockTime,
          confirmationStatus |->
              IF proof.signatureStatus # None
                 /\ Val(proof.signatureStatus).confirmationStatus # NULL
              THEN Val(proof.signatureStatus).confirmationStatus
              ELSE "unknown" ],
      validation |->
        [ blockVerified |-> blockVerified,
          signatureStatusVerified |-> signatureStatusVerified,
          timestamp |-> now,
          status |-> IF blockVerified THEN "undefined" ELSE "PENDING_VALIDATION" ] ]

Threw(msg, blockCheck) ==
    [threw |-> TRUE, error |-> msg, blockCheck |-> blockCheck, proof |-> None]
Returned(gp, blockCheck) ==
    [threw |-> FALSE, error |-> NULL, blockCheck |-> blockCheck, proof |-> Some(gp)]

\* A variant in which a VALIDATION_PENDING error of the block check is
\* rethrown like every other error
afterBlockCheck_PendingRethrown(proof, rpc, blockCheck) ==
    IF blockCheck # "TRUE"
    THEN Threw("Block hash verification failed", blockCheck)
    ELSE LET signatureStatusVerified == signatureStatusCheck(proof.signatureStatus)
         IN IF signatureStatusVerified /\ validateTransactionExistsThrows(rpc)
            THEN Threw("Transaction validation failed", blockCheck)
            ELSE Returned(genesisProofOf(proof, TRUE, signatureStatusVerified, rpc.now),
                          blockCheck)

\* What validateGenesisProof does once verifyBlockHash has answered
\* `blockCheck` (steps 2-4 and the construction of the result)
afterBlockCheck(proof, rpc, blockCheck) ==
    IF blockCheck = "FALSE"
    THEN Threw("Block hash verification failed", blockCheck)
    ELSE LET blockVerified == (blockCheck = "TRUE")
             signatureStatusVerified == signatureStatusCheck(proof.signatureStatus)
         IN IF blockVerified /\ signatureStatusVerified
                 /\ validateTransactionExistsThrows(rpc)
            THEN Threw("Transaction validation failed", blockCheck)
            ELSE Returned(genesisProofOf(proof, blockVerified, signatureStatusVerified, rpc.now),
                          blockCheck)

\* A variant in which a proof whose block check is pending is not returned:
\* the VALIDATION_PENDING error reaches the caller
validateGenesisProof_PendingRaises(proof, rpc) ==
    LET blockCheck == verifyBlockHash(proof.blockHash, proof.blockHeight, rpc) IN
    IF validateLockEventThrows(proof.event)
    THEN Threw("Invalid lock event", "NOT_CALLED")
    ELSE IF blockCheck = "PENDING"
    THEN Threw("VALIDATION_PENDING", blockCheck)
    ELSE afterBlockCheck(proof, rpc, blockCheck)

\* validateGenesisProof(proof) against the RPC answers `rpc` (rpc.now is what
\* Date.now() gives when the result is built).  blockCheck
\* records what verifyBlockHash answered ("NOT_CALLED" when the event
\* structure check threw first).
validateGenesisProof(proof, rpc) ==
    IF validateLockEventThrows(proof.event)
    THEN Threw("Invalid lock event", "NOT_CALLED")
    ELSE afterBlockCheck(proof, rpc,
                         verifyBlockHash(proof.blockHash, proof.blockHeight, rpc))

\* validateCryptographicChain(genesisProof): it never throws.  `st` is what
\* getSignatureStatuses gives (None, "THROW" in rpcThrows, or a status whose
\* err is NULL or an error payload).
validateCryptographicChain(gp, rpcThrows, st) ==
    IF rpcThrows THEN FALSE
    ELSE IF st = None THEN FALSE
    ELSE IF Val(st).err # NULL THEN FALSE
    ELSE IF gp.solanaTransaction.transaction = None THEN TRUE
    ELSE IF /\ Len(Val(gp.solanaTransaction.transaction).signatures) > 0
            /\ Val(gp.solanaTransaction.transaction).signatures[1]
                  # gp.solanaTransaction.signature
    THEN FALSE
    ELSE gp.solanaTransaction.confirmationStatus \in {"finalized", "confirmed"}

-----------------------------------------------------------------------------
(* mintBridgedTokenWithSDK (unicity-sdk-simple.ts)                         *)

\* A variant of the authorization check that compares the 64 hex digits only
\* and ignores the "[SHA256]" tag
validateMinterAuthorization_IgnoringTag(unicityRecipient, w) ==
    /\ unicityRecipient.id = w.publicKey.id
    /\ unicityRecipient.hex = w.publicKey.hex
    /\ unicityRecipient.len = w.publicKey.len

\* validateMinterAuthorization: unicityRecipient === wallet.publicKey
validateMinterAuthorization(unicityRecipient, w) == unicityRecipient = w.publicKey

\* The outcome of the part of mintBridgedTokenWithSDK that precedes the SDK
\* calls: loadUnicityWallet and the authorization check.  `ow` is the saved
\* wallet (None when loadUnicityWallet returns null).
mintPrecheck(minterPublicKey, ow) ==
    IF ow = None THEN "WALLET_NOT_FOUND"
    ELSE IF ~validateMinterAuthorization(minterPublicKey, Val(ow))
    THEN "AUTHORIZATION FAILED"
    ELSE "OK"

\* [f1, ..., f7].join('|')
commitmentDataOf(gp) ==
    << gp.lockEvent.lockId, "|",
       gp.solanaTransaction.signature, "|",
       ToStr(gp.solanaTransaction.blockHeight), "|",
       gp.lockEvent.user, "|",
       gp.lockEvent.amount, "|",
       gp.lockEvent.nonce, "|",
       gp.lockEvent.timestamp >>

\* A variant of the token id that also hashes the validation status of the
\* proof
mintTokenId_WithValidationStatus(gp) ==
    Hash(Append(Append(commitmentDataOf(gp), gp.validation.status), "_tokenId"))

\* sha256(commitmentData + '_tokenId')
mintTokenId(gp) == Hash(Append(commitmentDataOf(gp), "_tokenId"))

\* sha256('BRIDGED_SOL_FROM_SOLANA' + programId)
mintTokenType(bridgeProgramId) == Hash(<<"BRIDGED_SOL_FROM_SOLANA", bridgeProgramId>>)

\* sha256(commitmentData + '_salt')
mintSalt(gp) == Hash(Append(commitmentDataOf(gp), "_salt"))

\* The object JSON.stringify'd into tokenData
mintTokenData(gp) ==
    [ bridgeType |-> "SOLANA_BRIDGE",
      lockEvent |-> gp.lockEvent,
      solanaTransaction |->
        [ signature |-> gp.solanaTransaction.signature,
          transaction |-> gp.solanaTransaction.transaction,
          blockHeight |-> gp.solanaTransaction.blockHeight,
          slot |-> gp.solanaTransaction.slot,
          blockTime |-> gp.solanaTransaction.blockTime,
          confirmationStatus |-> gp.solanaTransaction.confirmationStatus ] ]

\* JSON.stringify / TextEncoder, and the hex form the SDK serialises bytes in
JsonEncode(obj) == <<"json", obj>>
HexEncode(bytes) == <<"hex", bytes>>

\* The request identity the aggregator keys uniqueness on:
\* RequestId = H(publicKey, H(tokenId.bytes, MINT_SUFFIX))
mintRequestId(w, tokenId) == Hash(<<w.publicKey.id, Hash(<<tokenId, "MINT_SUFFIX">>)>>)

\* Everything the mint derives from its arguments before submitting
mintTransactionData(gp, bridgeProgramId, w) ==
    [ tokenId |-> mintTokenId(gp),
      tokenType |-> mintTokenType(bridgeProgramId),
      tokenData |-> JsonEncode(mintTokenData(gp)),
      salt |-> mintSalt(gp),
      requestId |-> mintRequestId(w, mintTokenId(gp)) ]

\* lockIdHex = proof.lockEvent.lockId.substring(0, 8), and the three files
fileName(kind, gp) == <<kind, gp.lockEvent.lockId>>

\* JSON.stringify(token): the fields of the token file the verifier reads.
\* sdkValid: the SDK's TokenFactory accepts the file (true of a token the
\* SDK built itself from an inclusion proof).
tokenFileOf(td) ==
    [ sdkValid |-> TRUE,
      genesis |-> [ data |->
        [ tokenData |-> HexEncode(td.tokenData),
          tokenId |-> HexEncode(td.tokenId),
          tokenType |-> HexEncode(td.tokenType),
          salt |-> HexEncode(td.salt) ] ] ]

\* fs.writeFileSync(name, content) on the output directory
writeFile(files, name, content) ==
    [n \in DOMAIN files \cup {name} |-> IF n = name THEN content ELSE files[n]]

\* The three writeFileSync calls of a successful mint
mintWriteFiles(files, gp, td, minterPublicKey) ==
    LET owner == [minterPublicKey |-> minterPublicKey, tokenId |-> HexEncode(td.tokenId)]
        f1 == writeFile(files, fileName("token-owner", gp), owner)
        f2 == writeFile(f1, fileName("unicity-token", gp), tokenFileOf(td))
    IN writeFile(f2, fileName("genesis-record", gp), [proof |-> gp, ownerData |-> owner])

\* client.submitMintTransaction against a network that accepts a request
\* identity at most once: TRUE iff this submission is accepted
submitAccepted(acc, requestId) == requestId \notin acc

-----------------------------------------------------------------------------
(* UnicityTokenValidator (validate-token.ts)                               *)

\* BRIDGE_CONFIG.bridgeProgramId of monitor and verifier
BRIDGE_PROGRAM_ID == "9q5thPnZ"

Check(name, status) == [check |-> name, status |-> status]
Verdict(valid, summary, results) ==
    [valid |-> valid, summary |-> summary, results |-> results]

\* decodeTokenData: Buffer.from(hex, 'hex').toString('utf8') and JSON.parse;
\* None when it throws
decodeTokenData(hexData) ==
    IF hexData[1] = "hex" /\ hexData[2][1] = "json" THEN Some(hexData[2][2]) ELSE None

\* A field of a decoded JSON object that may be absent (undefined)
Field(obj, name) == IF name \in DOMAIN obj THEN Some(obj[name]) ELSE None

\* /^[1-9A-HJ-NP-Za-km-z]{87,88}$/.test(signature): the model's transaction
\* signatures are atoms; the ones named here have 87 or 88 base58 characters
TxSignatureFormatOk(signature) == signature \in {"s1", "s2", "s3"}

\* consistentSolanaLockingProof: the decoded proof, or the FAIL it records
consistentSolanaLockingProof(tokenData) ==
    LET od == decodeTokenData(tokenData) IN
    IF od = None
    THEN [ok |-> FALSE, decoded |-> None, result |-> Check("Solana Locking Proof", "FAIL")]
    ELSE LET decoded == Val(od) IN
         IF decoded.bridgeType # "SOLANA_BRIDGE"
         THEN [ok |-> FALSE, decoded |-> None, result |-> Check("Bridge Type", "FAIL")]
         ELSE IF IsEmptyStr(decoded.lockEvent.unicityRecipient)
         THEN [ok |-> FALSE, decoded |-> None, result |-> Check("Lock Event", "FAIL")]
         ELSE IF ~TxSignatureFormatOk(decoded.solanaTransaction.signature)
         THEN [ok |-> FALSE, decoded |-> None,
               result |-> Check("Transaction Signature", "FAIL")]
         ELSE [ok |-> TRUE, decoded |-> od,
               result |-> Check("Solana Locking Proof", "PASS")]

\* validateMinterKeyConsistency(decodedProof, minterPublicKeyHex): TRUE iff
\* it passes.  A 66-character hex recipient is compared as a whole; otherwise
\* the first run of 64 or more hex digits is extracted (the body, when the
\* body is hex and long enough) and compared with minterPublicKeyHex.
validateMinterKeyConsistency(decodedProof, minterPublicKeyHex) ==
    LET r == decodedProof.lockEvent.unicityRecipient IN
    IF IsEmptyStr(r) THEN FALSE
    ELSE IF r.prefix = "" /\ r.hex /\ r.len = 66
    THEN r = minterPublicKeyHex
    ELSE IF ~(r.hex /\ r.len >= 64) THEN FALSE
    ELSE Rcp("", TRUE, r.len, r.id) = minterPublicKeyHex

\* The minter signatures of the model (hex strings): their byte length and
\* whether secp256k1.ecdsaRecover succeeds on them.  SIG_A and SIG_B are the
\* signatures of the commitment hash under the keys A and B; SIG_A_S is SIG_A
\* with the last byte of s changed (a valid r, s pair: recovery gives some
\* other key "X"); SIG_A_V is SIG_A with its recovery byte set to 9 (recovery
\* throws).
MinterSignatures == {"SIG_A", "SIG_B", "SIG_64", "SIG_JUNK", "SIG_A_S", "SIG_A_V"}
SignatureByteLength(sig) == IF sig = "SIG_64" THEN 64 ELSE 65
EcdsaRecovers(sig) == sig \in {"SIG_A", "SIG_B", "SIG_A_S"}

\* The signatures of the model that differ from `sig` in one byte
OneByteChanged(sig) == IF sig = "SIG_A" THEN {"SIG_A_S", "SIG_A_V"} ELSE {}

\* secp256k1.ecdsaRecover(signatureBytes, recoveryId, hash): the identity of
\* the key it gives
recoveredPublicKey(sig) ==
    IF sig = "SIG_A" THEN "A" ELSE IF sig = "SIG_B" THEN "B" ELSE "X"

\* validateMinterSignatureWithRecovery: TRUE iff it passes.  The key is
\* recovered from the signature itself and the signature then verified
\* against that recovered key, which succeeds whenever recovery does.
validateMinterSignatureWithRecovery(unicityRecipient, commitmentData, minterSignature) ==
    IF SignatureByteLength(minterSignature) # 65 THEN FALSE
    ELSE IF ~EcdsaRecovers(minterSignature) THEN FALSE
    ELSE LET isFullFormat == unicityRecipient.prefix = SHA256_TAG
             isHashOnly == IsHex64(unicityRecipient)
         IN ~(IsEmptyStr(unicityRecipient) \/ (~isFullFormat /\ ~isHashOnly))

\* The token id validateTokenIdDerivation expects:
\* sha256(commitmentData + minterSignature + '_tokenId') as hex
expectedTokenIdHex(commitmentData, minterSignature) ==
    HexEncode(Hash(Append(Append(commitmentData, minterSignature), "_tokenId")))

\* validateTokenIdDerivation: TRUE iff it passes
validateTokenIdDerivation(actualTokenId, commitmentData, minterSignature) ==
    actualTokenId = expectedTokenIdHex(commitmentData, minterSignature)

\* A variant of the summary in which a WARN counts like a FAIL
overallValid_WarnCounts(results) ==
    \A i \in 1..Len(results) : results[i].status \notin {"FAIL", "WARN"}

\* failCount === 0
overallValid(results) == \A i \in 1..Len(results) : results[i].status # "FAIL"

\* Step 3 of validateToken: transaction data integrity and the signature
\* existence check.  rpc.throws: getSignatureStatuses rejects; rpc.status:
\* the optional status record it gives.
validateTokenStep3(decoded, results, rpc) ==
    LET signature == decoded.solanaTransaction.signature
        txData == decoded.solanaTransaction.transaction
        integrity ==
            IF txData = None THEN "SKIP"
            ELSE IF Len(Val(txData).signatures) = 0 THEN "WARN"
            ELSE IF Val(txData).signatures[1] # signature THEN "FAIL"
            ELSE "PASS"
        r3 == IF integrity = "SKIP" THEN results
              ELSE Append(results, Check("Transaction Data Integrity", integrity))
        summarise(rs) ==
            Verdict(overallValid(rs), "summary", rs)
    IN
    IF integrity = "FAIL" THEN Verdict(FALSE, "Transaction data integrity failed", r3)
    ELSE IF rpc.throws THEN summarise(Append(r3, Check("RPC Validation", "FAIL")))
    ELSE IF rpc.status = None
    THEN Verdict(FALSE, "Transaction signature not found on blockchain",
                 Append(r3, Check("RPC Validation", "FAIL")))
    ELSE IF Val(rpc.status).err # NULL
    THEN Verdict(FALSE, "Transaction failed on blockchain",
                 Append(r3, Check("RPC Validation", "FAIL")))
    ELSE IF Val(rpc.status).confirmationStatus \notin VALID_STATUSES
    THEN Verdict(FALSE, "Invalid transaction confirmation status",
                 Append(r3, Check("RPC Validation", "FAIL")))
    ELSE summarise(Append(r3, Check("RPC Validation", "PASS")))

\* validateToken from the decoded proof on (steps 2 to 3)
validateTokenDecoded(tokenJson, decoded, results, rpc) ==
    LET osig == Field(decoded, "minterSignature") IN
    IF osig = None
    THEN Verdict(FALSE, "Missing mandatory minter signature field",
                 Append(results, Check("Minter Signature", "FAIL")))
    ELSE
    LET sig == Val(osig)
        reconstructedCommitmentData == commitmentDataOf(decoded)
    IN
    IF ~validateMinterKeyConsistency(decoded, decoded.lockEvent.unicityRecipient)
    THEN Verdict(FALSE, "Minter key consistency validation failed",
                 Append(results, Check("Minter Key Consistency", "FAIL")))
    ELSE
    LET r1 == Append(results, Check("Minter Key Consistency", "PASS")) IN
    IF ~validateMinterSignatureWithRecovery(decoded.lockEvent.unicityRecipient,
                                            reconstructedCommitmentData, sig)
    THEN Verdict(FALSE, "TokenId derivation signature validation failed",
                 Append(r1, Check("Minter Signature", "FAIL")))
    ELSE
    LET r2 == Append(r1, Check("Minter Signature", "PASS")) IN
    IF ~validateTokenIdDerivation(tokenJson.genesis.data.tokenId,
                                  reconstructedCommitmentData, sig)
    THEN Verdict(FALSE, "TokenId derivation validation failed",
                 Append(r2, Check("TokenId Derivation", "FAIL")))
    ELSE validateTokenStep3(decoded, Append(r2, Check("TokenId Derivation", "PASS")), rpc)

\* validateToken(tokenFilePath): `ofile` is the file's content (None when the
\* file does not exist)
validateToken(ofile, rpc) ==
    IF ofile = None
    THEN Verdict(FALSE, "File not found", <<Check("File Access", "FAIL")>>)
    ELSE
    LET tokenJson == Val(ofile) IN
    IF ~tokenJson.sdkValid
    THEN Verdict(FALSE, "TokenFactory validation failed",
                 <<Check("Token Deserialization", "FAIL")>>)
    ELSE
    LET r0 == <<Check("Token Deserialization", "PASS")>>
        c == consistentSolanaLockingProof(tokenJson.genesis.data.tokenData)
    IN IF ~c.ok
       THEN Verdict(FALSE, "Inconsistent Solana locking proof", Append(r0, c.result))
       ELSE validateTokenDecoded(tokenJson, Val(c.decoded), Append(r0, c.result), rpc)

-----------------------------------------------------------------------------
(* Sample data                                                             *)

\* The saved minter wallet: publicKey is predicate.reference.toString(), a
\* "[SHA256]" tag and 64 hex digits
KeyA == Rcp(SHA256_TAG, TRUE, 64, "A")
KeyB == Rcp(SHA256_TAG, TRUE, 64, "B")
WalletA == [publicKey |-> KeyA, secret |-> "secretA"]
WalletB == [publicKey |-> KeyB, secret |-> "secretB"]

\* The recipient as the lock contract stores it: the tag stripped
Bare(key) == Rcp("", key.hex, key.len, key.id)

\* A well-formed lock event (LockEvent of bridge-client.ts)
lockEventOf(id, recipient) ==
    [ lockId |-> [len |-> 32, id |-> id],
      user |-> "U1",
      amount |-> 100000000,
      unicityRecipient |-> recipient,
      nonce |-> 0,
      timestamp |-> 1700000000 ]

\* The ProofData generateProof assembles (blockHeight is the slot)
proofDataOf(event, signature, slot, blockHash, signatureStatus) ==
    [ event |-> event,
      slot |-> slot,
      blockHash |-> blockHash,
      blockHeight |-> slot,
      transaction |->
        [ signature |-> signature,
          slot |-> slot,
          blockTime |-> 0,
          fullTransaction |-> Some([signatures |-> <<signature>>]) ],
      signatureStatus |-> signatureStatus ]

signatureStatusOf(confirmationStatus, confirmations, err, slot) ==
    [ confirmationStatus |-> confirmationStatus, confirmations |-> confirmations,
      err |-> err, slot |-> slot ]

\* The proof when getTransaction in generateProof returned transaction
\* details whose first signature is `primary`
withFullTransaction(proof, primary) ==
    [proof EXCEPT !.transaction.fullTransaction = Some([signatures |-> <<primary>>])]

-----------------------------------------------------------------------------
(* SpecValidate: validateGenesisProof on bounded inputs                    *)

ValEvents ==
    LET e == lockEventOf("L1", Bare(KeyA)) IN
    { e,
      [e EXCEPT !.lockId = [len |-> 31, id |-> "L1"]],
      [e EXCEPT !.user = NULL],
      [e EXCEPT !.amount = 0],
      [e EXCEPT !.unicityRecipient = Rcp("", TRUE, 0, "")],
      [e EXCEPT !.nonce = -1],
      [e EXCEPT !.timestamp = 0] }

ValStatuses ==
    { None,
      Some(signatureStatusOf("finalized", Some(0), NULL, Some(100))),
      Some(signatureStatusOf("processed", Some(0), NULL, Some(100))),
      Some(signatureStatusOf("finalized", None, NULL, Some(100))),
      Some(signatureStatusOf("confirmed", Some(3), "InstructionError", Some(100))) }

\* fullTransaction is optional in ProofData: the well-formed event also comes
\* without it, and with the details of another transaction ("sX")
ValProofs ==
    LET base == { proofDataOf(e, "s1", 100, bh, st) :
                    e \in ValEvents, bh \in {"", "H1", "not-base58"}, st \in ValStatuses }
        wellFormed == { p \in base : p.event = lockEventOf("L1", Bare(KeyA)) }
    IN base
        \cup { [p EXCEPT !.transaction.fullTransaction = None] : p \in wellFormed }
        \cup { withFullTransaction(p, "sX") : p \in wellFormed }

\* The answers of the origin chain's RPC during one validation
ValRpcs ==
    [ block : {NULL, "THROW", "H1", "H2"},
      finalizedSlot : {None, Some(95), Some(100),
                       Some(100 + PENDING_MIN_AGE - 1), Some(100 + PENDING_MIN_AGE)},
      tx : {NULL, "THROW", "INVOKES", "NOT_INVOKED"},
      status : {NULL, "ERR", "OK", "THROW"},
      now : {1} ]

IdleMonitor ==
    /\ processedTransactions = {} /\ lastCheckedSlot = 0 /\ processedEvents = 0
    /\ isRunning = FALSE /\ exited = FALSE /\ savedFile = None
    /\ tasks = <<>> /\ delivered = {}
    /\ mintCalls = <<>> /\ mintOutcomes = <<>> /\ pendingRaised = FALSE /\ aborted = {}
IdleNetwork == accepted = {} /\ outputFiles = <<>>
IdleMint == calls = <<>> /\ verdict = None
IdleValidate ==
    vProof = None /\ vRpc = None /\ vPc = "idle" /\ vResult = None /\ vChain = None
IdleLock == lockArg = None /\ lockPc = "idle" /\ lockRecipient = None
IdleVerify == vfInput = None /\ vfVerdict = None /\ vfVerdict004 = None
IdleParse == pInput = None /\ pResult = None
IdleLifecycle == signalled = FALSE
IdleDemo ==
    /\ demoPc = "idle" /\ recentEvent = None
    /\ eventProcessed = FALSE /\ freshEventProcessed = FALSE
    /\ eventPromise = "none" /\ freshEventPromise = "none"
    /\ needsFreshTransaction = FALSE /\ lockSolCalled = FALSE
    /\ external = 0 /\ ownEvent = "none"

InitValidate ==
    /\ vProof \in {Some(p) : p \in ValProofs}
    /\ vRpc \in {Some(r) : r \in ValRpcs}
    /\ vPc = "start"
    /\ vResult = None /\ vChain = None
    /\ wallet = None
    /\ IdleMonitor /\ IdleNetwork /\ IdleMint /\ IdleLock /\ IdleVerify /\ IdleParse /\ IdleLifecycle /\ IdleDemo

\* const validatedProof = await validateGenesisProof(proof)
ValidateCall ==
    /\ vPc = "start"
    /\ vResult' = Some(validateGenesisProof(Val(vProof), Val(vRpc)))
    /\ vPc' = "done"
    /\ UNCHANGED <<vProof, vRpc, vChain, monitorVars, networkVars, mintVars, lockVars, verifyVars, parseVars, lifecycleVars, demoVars>>

\* What getSignatureStatuses gives validateCryptographicChain, from the same
\* RPC answer about the signature that validateTransactionExists reads
chainStatusOf(rpc) ==
    IF rpc.status = "OK" THEN Some(signatureStatusOf("finalized", None, NULL, Some(100)))
    ELSE IF rpc.status = "ERR"
    THEN Some(signatureStatusOf("confirmed", Some(3), "InstructionError", Some(100)))
    ELSE None

\* const chainValid = await validateCryptographicChain(validatedProof)
ChainCall ==
    /\ vPc = "done" /\ ~Val(vResult).threw
    /\ vChain' = Some(validateCryptographicChain(Val(Val(vResult).proof),
                                                 Val(vRpc).status = "THROW",
                                                 chainStatusOf(Val(vRpc))))
    /\ vPc' = "chained"
    /\ UNCHANGED <<vProof, vRpc, vResult, monitorVars, networkVars, mintVars, lockVars,
                   verifyVars, parseVars, lifecycleVars, demoVars>>

NextValidate == ValidateCall \/ ChainCall

SpecValidate == InitValidate /\ [][NextValidate]_vars

-----------------------------------------------------------------------------
(* SpecLock: the lock CLI, the origin contract and the monitor's restore   *)
(* rule on bounded recipients                                              *)

\* /^[a-zA-Z0-9_]+$/.test(s): hex digits are word characters; of the other
\* bodies the model names, "word" is made of word characters only
IsWord(s) == s.prefix = "" /\ s.len > 0 /\ (s.hex \/ s.id = "word")

\* s.length
StrLen(s) == (IF s.prefix = SHA256_TAG THEN 8 ELSE 0) + s.len

\* main(): the recipient argument passes the format validation
cliAccepts(recipient) ==
    LET isUnicityKey == recipient.prefix = SHA256_TAG /\ StrLen(recipient) = 72
        isSimpleRecipient ==
            IsWord(recipient) /\ StrLen(recipient) >= 3 /\ StrLen(recipient) <= 50
    IN isUnicityKey \/ isSimpleRecipient

\* executeLockTransaction: originalRecipient.startsWith('[SHA256]')
\*     ? originalRecipient.substring(8) : originalRecipient
contractRecipient(originalRecipient) ==
    IF originalRecipient.prefix = SHA256_TAG
    THEN Rcp("", originalRecipient.hex, originalRecipient.len, originalRecipient.id)
    ELSE originalRecipient

\* The recipient arguments: with and without the tag, bodies of hex digits,
\* of word characters that are not all hex digits, and with another character
LockLens == {0, 2, 3, 8, 50, 51, 63, 64, 65, 72}
LockBodies == {<<TRUE, "A">>, <<FALSE, "word">>, <<FALSE, "punct">>}
LockArgs ==
    {Rcp(p, b[1], n, b[2]) : p \in {"", SHA256_TAG}, b \in LockBodies, n \in LockLens}

InitLock ==
    /\ lockArg \in {Some(r) : r \in LockArgs}
    /\ lockPc = "cli"
    /\ lockRecipient = None
    /\ wallet = None
    /\ IdleMonitor /\ IdleNetwork /\ IdleMint /\ IdleValidate /\ IdleVerify /\ IdleParse /\ IdleLifecycle /\ IdleDemo

\* main() validates the argument: process.exit(1), or on to the lock
LockCli ==
    /\ lockPc = "cli"
    /\ lockPc' = IF cliAccepts(Val(lockArg)) THEN "accepted" ELSE "rejected"
    /\ UNCHANGED <<lockArg, lockRecipient, monitorVars, networkVars, mintVars, validateVars, verifyVars, parseVars, lifecycleVars, demoVars>>

\* executeLockTransaction calls lockSol with the contract recipient, which
\* the TokenLocked event then carries
LockSol ==
    /\ lockPc = "accepted"
    /\ lockRecipient' = Some(contractRecipient(Val(lockArg)))
    /\ lockPc' = "locked"
    /\ UNCHANGED <<lockArg, monitorVars, networkVars, mintVars, validateVars, verifyVars, parseVars, lifecycleVars, demoVars>>

\* processBridgeEvent applies its restore rule to the event's recipient
LockRestore ==
    /\ lockPc = "locked"
    /\ lockRecipient' = Some(restoreTag(Val(lockRecipient)))
    /\ lockPc' = "restored"
    /\ UNCHANGED <<lockArg, monitorVars, networkVars, mintVars, validateVars, verifyVars, parseVars, lifecycleVars, demoVars>>

NextLock == LockCli \/ LockSol \/ LockRestore

SpecLock == InitLock /\ [][NextLock]_vars

-----------------------------------------------------------------------------
(* SpecMint: calls of mintBridgedTokenWithSDK, then validateToken          *)

MaxCalls == 2
CallIds == 1..MaxCalls

RpcAllGood ==
    [block |-> "H1", finalizedSlot |-> Some(200), tx |-> "INVOKES", status |-> "OK", now |-> 1]
RpcTooRecent ==
    [block |-> NULL, finalizedSlot |-> Some(0), tx |-> "INVOKES", status |-> "OK", now |-> 2]
StFinalized(slot) == Some(signatureStatusOf("finalized", Some(0), NULL, Some(slot)))

\* The validated proofs handed to the mint: lock L1 (transaction s1) fully
\* validated, the same lock validated again later as pending, and lock L2
\* (transaction s2) pending
MintProofs ==
    LET p1 == proofDataOf(lockEventOf("L1", Bare(KeyA)), "s1", 1, "H1", StFinalized(1))
        p2 == proofDataOf(lockEventOf("L2", Bare(KeyA)), "s2", 2, "H2", StFinalized(2))
    IN { Val(validateGenesisProof(p1, RpcAllGood).proof),
         Val(validateGenesisProof(p1, RpcTooRecent).proof),
         Val(validateGenesisProof(p2, RpcTooRecent).proof) }

\* The minterPublicKey arguments: the wallet's key, the same key without its
\* tag, and another key
MintMinters == {KeyA, Bare(KeyA), KeyB}

\* The answers of the origin chain to the verifier's getSignatureStatuses
VerifierRpcs ==
    { [throws |-> TRUE, status |-> None],
      [throws |-> FALSE, status |-> None],
      [throws |-> FALSE, status |-> Some([err |-> "InstructionError",
                                          confirmationStatus |-> "finalized"])],
      [throws |-> FALSE, status |-> Some([err |-> NULL, confirmationStatus |-> NULL])],
      [throws |-> FALSE, status |-> Some([err |-> NULL, confirmationStatus |-> "confirmed"])],
      [throws |-> FALSE, status |-> Some([err |-> NULL, confirmationStatus |-> "finalized"])] }

InitMint ==
    /\ wallet \in {None, Some(WalletA)}
    /\ \E pid \in {BRIDGE_PROGRAM_ID, "otherProgram"} :
          calls \in [CallIds -> [ gp : MintProofs, minterPublicKey : MintMinters,
                                  bridgeProgramId : {pid}, pc : {"start"},
                                  td : {None}, answer : {"NONE"}, error : {NULL},
                                  wrote : {FALSE} ]]
    /\ verdict = None
    /\ accepted = {} /\ outputFiles = <<>>
    /\ IdleMonitor /\ IdleValidate /\ IdleLock /\ IdleVerify /\ IdleParse /\ IdleLifecycle /\ IdleDemo

\* The call up to client.submitMintTransaction: wallet load, authorization,
\* derivation of the mint transaction data
MintStart(c) ==
    /\ calls[c].pc = "start"
    /\ LET pre == mintPrecheck(calls[c].minterPublicKey, wallet) IN
       IF pre # "OK"
       THEN calls' = [calls EXCEPT ![c].pc = "threw", ![c].error = pre]
       ELSE calls' = [calls EXCEPT
                ![c].pc = "submitting",
                ![c].td = Some(mintTransactionData(calls[c].gp, calls[c].bridgeProgramId,
                                                   Val(wallet)))]
    /\ UNCHANGED <<verdict, networkVars, monitorVars, validateVars, lockVars, verifyVars, parseVars, lifecycleVars, demoVars>>

\* client.submitMintTransaction answers: accepted, or REQUEST_ID_EXISTS
MintSubmit(c) ==
    /\ calls[c].pc = "submitting"
    /\ LET rid == Val(calls[c].td).requestId IN
       IF submitAccepted(accepted, rid)
       THEN /\ accepted' = accepted \cup {rid}
            /\ calls' = [calls EXCEPT ![c].pc = "including", ![c].answer = "ACCEPTED"]
       ELSE /\ accepted' = accepted
            /\ calls' = [calls EXCEPT ![c].pc = "threw",
                                      ![c].answer = "REQUEST_ID_EXISTS",
                                      ![c].error = "REQUEST_ID_EXISTS"]
    /\ UNCHANGED <<verdict, outputFiles, monitorVars, validateVars, lockVars, verifyVars, parseVars, lifecycleVars, demoVars>>

\* client.submitMintTransaction rejects: the aggregator cannot be reached
MintSubmitUnavailable(c) ==
    /\ calls[c].pc = "submitting"
    /\ calls' = [calls EXCEPT ![c].pc = "threw", ![c].answer = "UNAVAILABLE",
                              ![c].error = "UNAVAILABLE"]
    /\ UNCHANGED <<verdict, networkVars, monitorVars, validateVars, lockVars, verifyVars, parseVars, lifecycleVars, demoVars>>

\* waitInclusionProof resolves: the token and the three files are written
MintIncluded(c) ==
    /\ calls[c].pc = "including"
    /\ outputFiles' = mintWriteFiles(outputFiles, calls[c].gp, Val(calls[c].td),
                                     calls[c].minterPublicKey)
    /\ calls' = [calls EXCEPT ![c].pc = "returned", ![c].wrote = TRUE]
    /\ UNCHANGED <<verdict, accepted, monitorVars, validateVars, lockVars, verifyVars, parseVars, lifecycleVars, demoVars>>

\* waitInclusionProof rejects (timeout)
MintInclusionFails(c) ==
    /\ calls[c].pc = "including"
    /\ calls' = [calls EXCEPT ![c].pc = "threw", ![c].error = "INCLUSION_TIMEOUT"]
    /\ UNCHANGED <<verdict, networkVars, monitorVars, validateVars, lockVars, verifyVars, parseVars, lifecycleVars, demoVars>>

\* npm run validate-token <file>, once the mints are over
VerifyToken ==
    /\ verdict = None
    /\ \A c \in CallIds : calls[c].pc \in {"returned", "threw"}
    /\ \E gp \in MintProofs, rpc \in VerifierRpcs :
          LET name == fileName("unicity-token", gp)
              ofile == IF name \in DOMAIN outputFiles THEN Some(outputFiles[name]) ELSE None
          IN verdict' = Some([ file |-> name, exists |-> ofile # None, rpc |-> rpc,
                               result |-> validateToken(ofile, rpc) ])
    /\ UNCHANGED <<calls, networkVars, monitorVars, validateVars, lockVars, verifyVars, parseVars, lifecycleVars, demoVars>>

NextMint ==
    \/ \E c \in CallIds : MintStart(c)
    \/ \E c \in CallIds : MintSubmit(c)
    \/ \E c \in CallIds : MintSubmitUnavailable(c)
    \/ \E c \in CallIds : MintIncluded(c)
    \/ \E c \in CallIds : MintInclusionFails(c)
    \/ VerifyToken

SpecMint == InitMint /\ [][NextMint]_vars

-----------------------------------------------------------------------------
(* Claims about mintBridgedTokenWithSDK and validateToken (SpecMint)       *)

\* The verifier's re-query finds the transaction executed without error and
\* confirmed or finalized
RpcReportsOk(rpc) ==
    /\ ~rpc.throws
    /\ rpc.status # None
    /\ Val(rpc.status).err = NULL
    /\ Val(rpc.status).confirmationStatus \in {"confirmed", "finalized"}

verified == Val(verdict)
MintPayloadFields(c) == DOMAIN Val(decodeTokenData(HexEncode(Val(calls[c].td).tokenData)))

\* C5 as stated: the payload a mint embeds carries bridgeType, lockEvent,
\* solanaTransaction and minterSignature, and every token file a mint wrote,
\* verified while the origin chain still reports the transaction OK, is
\* judged valid by validateToken
C5_MintedTokenVerifiesValid ==
    /\ \A c \in CallIds : calls[c].td # None =>
          {"bridgeType", "lockEvent", "solanaTransaction", "minterSignature"}
              \subseteq MintPayloadFields(c)
    /\ (verdict # None /\ verified.exists /\ RpcReportsOk(verified.rpc))
          => verified.result.valid

\* C6 as stated: the token id a mint derives is the one validateTokenIdDerivation
\* expects for the same commitment string and some minter signature
C6_MintTokenIdIsWhatVerifierExpects ==
    \A c \in CallIds : calls[c].td # None =>
        \E sig \in MinterSignatures :
            validateTokenIdDerivation(HexEncode(Val(calls[c].td).tokenId),
                                      commitmentDataOf(calls[c].gp), sig)

\* The lock event a call mints for, the calls for one lock event, and those
\* of them the network answered
LockOf(c) == calls[c].gp.lockEvent.lockId
CallsFor(lock) == {c \in CallIds : LockOf(c) = lock}
Answered(lock) == {c \in CallsFor(lock) : calls[c].answer \in {"ACCEPTED", "REQUEST_ID_EXISTS"}}
Derived(lock) == {c \in CallsFor(lock) : calls[c].td # None}
MintedTokenIds(lock) ==
    {Val(calls[c].td).tokenId : c \in {d \in CallsFor(lock) : calls[d].wrote}}

\* C7: calls for the same lock event (same wallet, same program id) derive
\* the same tokenId, tokenType and salt; of the submissions the network
\* answered exactly one was accepted and every other got REQUEST_ID_EXISTS;
\* no two distinct token ids are ever minted for one lock event
C7_MintIdempotent ==
    \A c \in CallIds :
        LET lock == LockOf(c) IN
        /\ \A d \in Derived(lock), e \in Derived(lock) :
              /\ Val(calls[d].td).tokenId = Val(calls[e].td).tokenId
              /\ Val(calls[d].td).tokenType = Val(calls[e].td).tokenType
              /\ Val(calls[d].td).salt = Val(calls[e].td).salt
        /\ Answered(lock) # {} =>
              Cardinality({d \in Answered(lock) : calls[d].answer = "ACCEPTED"}) = 1
        /\ Cardinality(MintedTokenIds(lock)) <= 1

\* C7 witness: two calls for the same validated proof, one included and
\* written, the other answered REQUEST_ID_EXISTS
C7_Witness ==
    \E c \in CallIds, d \in CallIds :
        /\ c # d /\ calls[c].gp = calls[d].gp
        /\ calls[c].pc = "returned" /\ calls[c].wrote
        /\ calls[d].pc = "threw" /\ calls[d].answer = "REQUEST_ID_EXISTS"

Unauthorized(c) == wallet # None /\ calls[c].minterPublicKey # Val(wallet).publicKey
ReachedSubmission(c) ==
    calls[c].answer # "NONE" \/ calls[c].pc \in {"submitting", "including", "returned"}

\* C8: a call reaches the submission only with a loaded wallet whose
\* publicKey is exactly the minter string; a call with a different minter
\* string throws AUTHORIZATION FAILED before submitting and writes nothing
C8_AuthorizationGate ==
    /\ \A c \in CallIds :
        /\ ReachedSubmission(c) =>
              wallet # None /\ calls[c].minterPublicKey = Val(wallet).publicKey
        /\ (Unauthorized(c) /\ calls[c].pc # "start") =>
              /\ calls[c].pc = "threw"
              /\ calls[c].error = "AUTHORIZATION FAILED"
              /\ calls[c].td = None /\ calls[c].answer = "NONE" /\ ~calls[c].wrote
    /\ (\A c \in CallIds : Unauthorized(c)) => accepted = {} /\ outputFiles = <<>>

\* C8 witness: with the wallet loaded, a call whose minter string is the
\* wallet's key without its tag has thrown AUTHORIZATION FAILED, and a call
\* with the wallet's key has been submitted
C8_Witness ==
    \E c \in CallIds, d \in CallIds :
        /\ wallet = Some(WalletA)
        /\ calls[c].minterPublicKey = Bare(KeyA)
        /\ calls[c].pc = "threw" /\ calls[c].error = "AUTHORIZATION FAILED"
        /\ calls[d].minterPublicKey = KeyA /\ calls[d].answer = "ACCEPTED"

-----------------------------------------------------------------------------
(* Claims about validateGenesisProof (checked under SpecValidate)          *)

vDone == vPc = "done"
vRes == Val(vResult)
vReturnedPending ==
    /\ ~vRes.threw
    /\ Val(vRes.proof).validation.status = "PENDING_VALIDATION"
    /\ ~Val(vRes.proof).validation.blockVerified
vReturnedVerified ==
    /\ ~vRes.threw
    /\ Val(vRes.proof).validation.status # "PENDING_VALIDATION"
    /\ Val(vRes.proof).validation.blockVerified

\* C9 as stated: validateGenesisProof returns a PENDING_VALIDATION proof with
\* blockVerified = false exactly when verifyBlockHash raised
\* VALIDATION_PENDING, returns a proof with blockVerified = true exactly when
\* verifyBlockHash returned true, and throws when it returned false.
C9_ClassifiedByBlockCheckAlone ==
    vDone =>
        /\ (vRes.blockCheck = "PENDING") <=> vReturnedPending
        /\ (vRes.blockCheck = "TRUE") <=> vReturnedVerified
        /\ (vRes.blockCheck = "FALSE") => vRes.threw

\* C9 amended: a proof is returned as PENDING_VALIDATION with
\* blockVerified = false exactly when verifyBlockHash raised
\* VALIDATION_PENDING; every proof returned with blockVerified = true comes
\* from verifyBlockHash returning true; when verifyBlockHash returned true the
\* call either returns such a proof or, the confirmation check having passed
\* too, throws because the transaction-existence check failed; it throws
\* whenever verifyBlockHash returned false.
C9_ClassifiedUnlessExistenceCheckFails ==
    vDone =>
        /\ (vRes.blockCheck = "PENDING") <=> vReturnedPending
        /\ vReturnedVerified => (vRes.blockCheck = "TRUE")
        /\ (vRes.blockCheck = "TRUE") =>
              \/ vReturnedVerified
              \/ /\ vRes.threw
                 /\ vRes.error = "Transaction validation failed"
                 /\ signatureStatusCheck(Val(vProof).signatureStatus)
                 /\ validateTransactionExistsThrows(Val(vRpc))
        /\ (vRes.blockCheck = "FALSE") =>
              (vRes.threw /\ vRes.error = "Block hash verification failed")

\* C9 witness: verifyBlockHash raised VALIDATION_PENDING for a block 5 slots
\* ahead of the finalized slot and a pending proof was returned
C9_Witness ==
    /\ vDone
    /\ vRes.blockCheck = "PENDING"
    /\ Val(vRpc).finalizedSlot = Some(95)
    /\ vReturnedPending

-----------------------------------------------------------------------------
(* BridgeMonitor (demo-bridge-monitor.ts)                                  *)

\* The lock transactions on the origin chain, oldest first, with their slots
\* and the lock events they emitted
ChainSignatures == <<"s1", "s2">>
Sigs == {ChainSignatures[i] : i \in DOMAIN ChainSignatures}
TxSlot(sig) == IF sig = "s1" THEN 11 ELSE 12
TxBlockHash(sig) == IF sig = "s1" THEN "H1" ELSE "H2"
TxEvent(sig) ==
    IF sig = "s1" THEN lockEventOf("L1", Bare(KeyA)) ELSE lockEventOf("L2", Bare(KeyA))

\* generateProof(event, signature, slot): blockHash is '' when getBlock fails
generateProof(sig, blockFetched) ==
    proofDataOf(TxEvent(sig), sig, TxSlot(sig),
                IF blockFetched THEN TxBlockHash(sig) ELSE "",
                StFinalized(TxSlot(sig)))

\* What the RPC can answer while validateGenesisProof runs on the proof of
\* `sig`: the block is finalized and served; the block is not served and the
\* finalized slot is 5 behind the block (blockAge = -5); the block is not
\* served and is old enough; the served block has another hash
MonitorRpcs(sig) ==
    LET base == [block |-> NULL, finalizedSlot |-> Some(200), tx |-> "INVOKES",
                 status |-> "OK", now |-> 1]
    IN { [base EXCEPT !.block = TxBlockHash(sig)],
         [base EXCEPT !.finalizedSlot = Some(TxSlot(sig) - 5)],
         base,
         [base EXCEPT !.block = "H9"] }

\* The tasks of a run: one callback per lock transaction, the startup poll
\* of start() and the periodic poll of startPollingVerification
StartupPoll == <<"poll", 0>>
PeriodicPoll == <<"poll", 1>>
CallbackIds == {<<"cb", i>> : i \in DOMAIN ChainSignatures}
PollIds == {StartupPoll, PeriodicPoll}
TaskIds == CallbackIds \cup PollIds

\* A task: an invocation of the onLogs callback or of pollForMissedTransactions
\* and the await it is suspended at.  sig: the signature it is working on;
\* queue: the signatures the poll loop has still to visit (sig first).
IdleTask ==
    [ pc |-> "idle", sig |-> NULL, queue |-> <<>>, proof |-> None, gp |-> None,
      blockCheck |-> "NOT_CALLED", td |-> None ]
DoneTask == [IdleTask EXCEPT !.pc = "done"]

\* The for loop of pollForMissedTransactions from `queue` on: the signatures
\* from the first one that is neither processed nor at or below the last
\* checked slot
RECURSIVE pollNext(_, _, _)
pollNext(queue, processed, lastSlot) ==
    IF queue = <<>> THEN <<>>
    ELSE IF Head(queue) \in processed THEN pollNext(Tail(queue), processed, lastSlot)
    ELSE IF TxSlot(Head(queue)) <= lastSlot THEN pollNext(Tail(queue), processed, lastSlot)
    ELSE queue

\* The task once the loop stands at `queue`: awaiting getTransaction for the
\* next signature, or finished
pollAt(queue) ==
    IF queue = <<>> THEN DoneTask
    ELSE [IdleTask EXCEPT !.pc = "fetching", !.sig = Head(queue), !.queue = queue]

\* Task t once it is through with its current signature: a callback returns,
\* a poll goes on with the rest of its loop
continueTask(t, processed, lastSlot) ==
    IF t \in CallbackIds THEN DoneTask
    ELSE pollAt(pollNext(Tail(tasks[t].queue), processed, lastSlot))

\* The content saveProcessedTransactions writes
savedData(processed, lastSlot) ==
    Some([processedTransactions |-> processed, lastCheckedSlot |-> lastSlot])

SAVE_EVERY == 5

\* A variant of the watermark update that takes the slot of the event just
\* processed
Max_TakeLatest(a, b) == b

\* Math.max(a, b)
Max(a, b) == IF a >= b THEN a ELSE b

\* The files a previous run may have left
SavedFiles == {None, savedData({"s1"}, TxSlot("s1"))}

\* The state after the constructor (loadProcessedTransactions) and the part of
\* start() before its startup poll awaits getSignaturesForAddress
Init ==
    /\ savedFile \in SavedFiles
    /\ processedTransactions =
          IF savedFile = None THEN {} ELSE Val(savedFile).processedTransactions
    /\ lastCheckedSlot = IF savedFile = None THEN 0 ELSE Val(savedFile).lastCheckedSlot
    /\ processedEvents = 0
    /\ isRunning = FALSE /\ exited = FALSE
    /\ tasks = [t \in TaskIds |->
                  IF t = StartupPoll THEN [IdleTask EXCEPT !.pc = "listing"] ELSE IdleTask]
    /\ delivered = {}
    /\ wallet \in {None, Some(WalletA), Some(WalletB)}
    /\ mintCalls = [s \in Sigs |-> 0]
    /\ mintOutcomes = [s \in Sigs |-> <<>>]
    /\ pendingRaised = FALSE
    /\ aborted = {}
    /\ IdleNetwork /\ IdleMint /\ IdleValidate /\ IdleLock /\ IdleVerify /\ IdleParse /\ IdleLifecycle /\ IdleDemo

\* The variables no step of the monitor changes
monitorFixed == <<wallet, mintVars, validateVars, lockVars, verifyVars, parseVars, lifecycleVars, demoVars>>

\* A variant of the error path that marks the signature as processed
Abandon_MarksProcessed(t) ==
    LET processed == processedTransactions \cup {tasks[t].sig}
        next == continueTask(t, processed, lastCheckedSlot) IN
    /\ tasks' = [tasks EXCEPT ![t] = next]
    /\ isRunning' = (isRunning \/ (t = StartupPoll /\ next.pc = "done"))
    /\ processedTransactions' = processed
    /\ UNCHANGED <<lastCheckedSlot, processedEvents, savedFile, mintOutcomes>>

\* Task t leaves its current signature without reaching the bookkeeping of
\* processBridgeEvent; start() sets isRunning once its startup poll returns
Abandon(t) ==
    LET next == continueTask(t, processedTransactions, lastCheckedSlot) IN
    /\ tasks' = [tasks EXCEPT ![t] = next]
    /\ isRunning' = (isRunning \/ (t = StartupPoll /\ next.pc = "done"))
    /\ UNCHANGED <<processedTransactions, lastCheckedSlot, processedEvents, savedFile,
                   mintOutcomes>>

\* processBridgeEvent from the end of its inner try/catch around the mint to
\* its return: the validation-metadata file of a pending proof, the counter,
\* the replay guard, the slot watermark and the save on every fifth event.
\* `files` is the output directory as the mint left it.
Bookkeeping(t, outcome, files) ==
    LET sig == tasks[t].sig
        gp == Val(tasks[t].gp)
        processed == processedTransactions \cup {sig}
        lastSlot == Max(lastCheckedSlot, Val(tasks[t].proof).slot)
        events == processedEvents + 1
        next == continueTask(t, processed, lastSlot)
    IN
    /\ outputFiles' =
          IF gp.validation.status = "PENDING_VALIDATION"
          THEN writeFile(files, fileName("validation-metadata", gp),
                         [validationStatus |-> "PENDING"])
          ELSE files
    /\ processedEvents' = events
    /\ processedTransactions' = processed
    /\ lastCheckedSlot' = lastSlot
    /\ savedFile' = IF events % SAVE_EVERY = 0 THEN savedData(processed, lastSlot)
                    ELSE savedFile
    /\ mintOutcomes' = [mintOutcomes EXCEPT ![sig] = Append(@, outcome)]
    /\ tasks' = [tasks EXCEPT ![t] = next]
    /\ isRunning' = (isRunning \/ (t = StartupPoll /\ next.pc = "done"))

\* setInterval fires: a periodic poll starts if the monitor is running (the
\* polls are ten minutes apart: the previous one has returned)
PollTick ==
    /\ ~exited /\ isRunning
    /\ tasks[PeriodicPoll].pc \in {"idle", "done"}
    /\ tasks' = [tasks EXCEPT ![PeriodicPoll] = [IdleTask EXCEPT !.pc = "listing"]]
    /\ UNCHANGED <<processedTransactions, lastCheckedSlot, processedEvents, isRunning,
                   exited, savedFile, delivered, mintCalls, mintOutcomes, pendingRaised,
                   aborted, networkVars, monitorFixed>>

\* getSignaturesForAddress answers a poll (or rejects: the poll ends), and the
\* loop runs to its first await
PollListed(t) ==
    /\ ~exited /\ t \in PollIds /\ tasks[t].pc = "listing"
    /\ \E listed \in BOOLEAN :
          LET next == IF listed
                      THEN pollAt(pollNext(ChainSignatures, processedTransactions,
                                           lastCheckedSlot))
                      ELSE DoneTask
          IN /\ tasks' = [tasks EXCEPT ![t] = next]
             /\ isRunning' = (isRunning \/ (t = StartupPoll /\ next.pc = "done"))
    /\ UNCHANGED <<processedTransactions, lastCheckedSlot, processedEvents,
                   exited, savedFile, delivered, mintCalls, mintOutcomes,
                   pendingRaised, aborted, networkVars, monitorFixed>>

\* onLogs delivers the logs of a lock transaction: the callback of
\* monitorLockEvents starts and awaits getTransaction
Deliver(t) ==
    /\ ~exited /\ isRunning
    /\ t \in CallbackIds /\ tasks[t].pc = "idle"
    /\ tasks' = [tasks EXCEPT ![t].pc = "fetching", ![t].sig = ChainSignatures[t[2]]]
    /\ delivered' = delivered \cup {ChainSignatures[t[2]]}
    /\ UNCHANGED <<processedTransactions, lastCheckedSlot, processedEvents, isRunning,
                   exited, savedFile, mintCalls, mintOutcomes, pendingRaised, aborted,
                   networkVars, monitorFixed>>

\* getTransaction, parseTokenLockedEvent and generateProof have answered:
\* no event or an error (the signature is dropped), or a proof with which
\* processBridgeEvent is entered and runs to its first await.  For s1 getBlock
\* may have failed in generateProof; for the other signature the RPC may have
\* served the details of another transaction ("sX").
FetchOutcomes(sig) ==
    {"FAILED", "PROOF"}
        \cup (IF sig = "s1" THEN {"PROOF_WITHOUT_BLOCK"} ELSE {"PROOF_OF_OTHER_TX"})
Fetched(t) ==
    /\ ~exited /\ tasks[t].pc = "fetching"
    /\ \E fetch \in FetchOutcomes(tasks[t].sig) :
          IF fetch = "FAILED" \/ tasks[t].sig \in processedTransactions
          THEN Abandon(t)
          ELSE /\ tasks' = [tasks EXCEPT
                      ![t].pc = "validating",
                      ![t].proof =
                          Some(IF fetch = "PROOF_OF_OTHER_TX"
                               THEN withFullTransaction(
                                        generateProof(tasks[t].sig, TRUE), "sX")
                               ELSE generateProof(tasks[t].sig, fetch = "PROOF"))]
               /\ UNCHANGED <<processedTransactions, lastCheckedSlot, processedEvents,
                              isRunning, savedFile, mintOutcomes>>
    /\ UNCHANGED <<exited, delivered, mintCalls, pendingRaised, aborted,
                   networkVars, monitorFixed>>

\* await validateGenesisProof(proof) completes: it throws (the outer catch
\* logs, nothing is recorded) or returns the validated proof
Validated(t) ==
    /\ ~exited /\ tasks[t].pc = "validating"
    /\ \E rpc \in MonitorRpcs(tasks[t].sig) :
          LET res == validateGenesisProof(Val(tasks[t].proof), rpc) IN
          /\ pendingRaised' = (pendingRaised \/ (res.threw /\ res.blockCheck = "PENDING"))
          /\ aborted' = IF res.threw THEN aborted \cup {tasks[t].sig} ELSE aborted
          /\ IF res.threw
             THEN Abandon(t)
             ELSE /\ tasks' = [tasks EXCEPT ![t].pc = "chain", ![t].gp = res.proof,
                                            ![t].blockCheck = res.blockCheck]
                  /\ UNCHANGED <<processedTransactions, lastCheckedSlot, processedEvents,
                                 isRunning, savedFile, mintOutcomes>>
    /\ UNCHANGED <<exited, delivered, mintCalls, networkVars, monitorFixed>>

\* await validateCryptographicChain completes (its answer is only logged) and
\* mintBridgedTokenWithSDK is called with the tag restored: it throws before
\* submitting, or runs to client.submitMintTransaction
ChainValidated(t) ==
    /\ ~exited /\ tasks[t].pc = "chain"
    /\ mintCalls' = [mintCalls EXCEPT ![tasks[t].sig] = @ + 1]
    /\ \E st \in {None, StFinalized(0)} :
          LET gp == Val(tasks[t].gp)
              chainValid == validateCryptographicChain(gp, FALSE, st)
              unicityRecipient == restoreTag(Val(tasks[t].proof).event.unicityRecipient)
              pre == mintPrecheck(unicityRecipient, wallet)
          IN IF pre # "OK"
             THEN Bookkeeping(t, pre, outputFiles)
             ELSE /\ tasks' = [tasks EXCEPT
                         ![t].pc = "submitting",
                         ![t].td = Some(mintTransactionData(gp, BRIDGE_PROGRAM_ID,
                                                            Val(wallet)))]
                  /\ UNCHANGED <<processedTransactions, lastCheckedSlot, processedEvents,
                                 isRunning, savedFile, mintOutcomes, outputFiles>>
    /\ UNCHANGED <<exited, delivered, pendingRaised, aborted, accepted, monitorFixed>>

\* client.submitMintTransaction answers: accepted, or REQUEST_ID_EXISTS, which
\* processBridgeEvent catches and goes on to its bookkeeping
Submitted(t) ==
    /\ ~exited /\ tasks[t].pc = "submitting"
    /\ LET rid == Val(tasks[t].td).requestId IN
       IF submitAccepted(accepted, rid)
       THEN /\ accepted' = accepted \cup {rid}
            /\ tasks' = [tasks EXCEPT ![t].pc = "including"]
            /\ UNCHANGED <<processedTransactions, lastCheckedSlot, processedEvents,
                           isRunning, savedFile, mintOutcomes, outputFiles>>
       ELSE /\ accepted' = accepted
            /\ Bookkeeping(t, "REQUEST_ID_EXISTS", outputFiles)
    /\ UNCHANGED <<exited, delivered, mintCalls, pendingRaised, aborted, monitorFixed>>

\* client.submitMintTransaction rejects because the aggregator cannot be
\* reached: caught like every other error of the mint
SubmitUnavailable(t) ==
    /\ ~exited /\ tasks[t].pc = "submitting"
    /\ Bookkeeping(t, "UNAVAILABLE", outputFiles)
    /\ UNCHANGED <<exited, delivered, mintCalls, pendingRaised, aborted, accepted,
                   monitorFixed>>

\* waitInclusionProof resolves: the mint writes its files and returns
Included(t) ==
    /\ ~exited /\ tasks[t].pc = "including"
    /\ Bookkeeping(t, "MINTED",
                   mintWriteFiles(outputFiles, Val(tasks[t].gp), Val(tasks[t].td),
                                  restoreTag(Val(tasks[t].proof).event.unicityRecipient)))
    /\ UNCHANGED <<exited, delivered, mintCalls, pendingRaised, aborted, accepted,
                   monitorFixed>>

\* waitInclusionProof rejects (timeout): caught like every other error
InclusionFailed(t) ==
    /\ ~exited /\ tasks[t].pc = "including"
    /\ Bookkeeping(t, "INCLUSION_TIMEOUT", outputFiles)
    /\ UNCHANGED <<exited, delivered, mintCalls, pendingRaised, aborted, accepted,
                   monitorFixed>>

\* SIGINT or SIGTERM while the monitor is running: save and exit, which ends
\* every task (before start() has set isRunning the handler does nothing)
Shutdown ==
    /\ ~exited /\ isRunning
    /\ savedFile' = savedData(processedTransactions, lastCheckedSlot)
    /\ isRunning' = FALSE
    /\ exited' = TRUE
    /\ tasks' = [t \in TaskIds |-> [IdleTask EXCEPT !.pc = "exited"]]
    /\ UNCHANGED <<processedTransactions, lastCheckedSlot, processedEvents,
                   delivered, mintCalls, mintOutcomes, pendingRaised, aborted,
                   networkVars, monitorFixed>>

Next ==
    \/ PollTick
    \/ \E t \in TaskIds : PollListed(t)
    \/ \E t \in TaskIds : Deliver(t)
    \/ \E t \in TaskIds : Fetched(t)
    \/ \E t \in TaskIds : Validated(t)
    \/ \E t \in TaskIds : ChainValidated(t)
    \/ \E t \in TaskIds : Submitted(t)
    \/ \E t \in TaskIds : SubmitUnavailable(t)
    \/ \E t \in TaskIds : Included(t)
    \/ \E t \in TaskIds : InclusionFailed(t)
    \/ Shutdown

Spec == Init /\ [][Next]_vars

-----------------------------------------------------------------------------
(* Claims about the monitor (checked under Spec)                           *)

\* The tasks inside a call of mintBridgedTokenWithSDK that has neither
\* returned nor thrown
MintInFlight == {t \in TaskIds : tasks[t].pc \in {"submitting", "including"}}

\* C1 as stated: whatever the interleaving of the subscription callback and
\* the polls, mintBridgedTokenWithSDK is called at most once for a signature
C1_MintCalledAtMostOncePerSignature ==
    \A s \in Sigs : mintCalls[s] <= 1

\* C2 as stated: at every point of a run at most one call of
\* mintBridgedTokenWithSDK is in flight
C2_AtMostOneMintInFlight ==
    Cardinality(MintInFlight) <= 1

\* The outcomes of a mint attempt that settle the lock event
DefinitiveOutcomes == {"MINTED", "REQUEST_ID_EXISTS", "AUTHORIZATION FAILED"}

\* C3 as stated: a signature enters processedTransactions only in a step
\* whose mint attempt succeeded or was rejected as a duplicate or as an
\* authorization mismatch
C3_MarkedOnlyAfterDefinitiveOutcome ==
    [][\A s \in processedTransactions' \ processedTransactions :
          /\ Len(mintOutcomes'[s]) = Len(mintOutcomes[s]) + 1
          /\ mintOutcomes'[s][Len(mintOutcomes'[s])] \in DefinitiveOutcomes]_vars

\* C4: in every step of a run processedTransactions only grows and
\* lastCheckedSlot does not decrease
C4_Monotonic ==
    [][/\ processedTransactions \subseteq processedTransactions'
       /\ lastCheckedSlot' >= lastCheckedSlot]_vars

\* C4 witness: the run loaded {s1} with slot 11 and has since processed s2,
\* which moved the watermark to slot 12
C4_Witness ==
    /\ ~exited /\ savedFile = savedData({"s1"}, 11)
    /\ processedTransactions = {"s1", "s2"}
    /\ lastCheckedSlot = 12
    /\ processedEvents = 1

\* C10: validateGenesisProof never raises for a proof whose block check is
\* pending, a task holding such a proof is on its way to the mint or in it,
\* and the step that takes it on from the chain validation calls
\* mintBridgedTokenWithSDK for its signature
C10_PendingProceedsToMint ==
    /\ ~pendingRaised
    /\ [][/\ ~pendingRaised'
          /\ \A t \in TaskIds :
               /\ tasks'[t].blockCheck = "PENDING" =>
                     /\ tasks'[t].pc \in {"chain", "submitting", "including"}
                     /\ Val(tasks'[t].gp).validation.status = "PENDING_VALIDATION"
               /\ (tasks[t].blockCheck = "PENDING" /\ tasks[t].pc = "chain"
                      /\ tasks'[t] # tasks[t] /\ ~exited') =>
                     mintCalls'[tasks[t].sig] = mintCalls[tasks[t].sig] + 1]_vars

\* C10 witness: a proof validated with blockAge = -5 is at the submission of
\* its mint
C10_Witness ==
    \E t \in TaskIds :
        /\ tasks[t].blockCheck = "PENDING"
        /\ Val(tasks[t].gp).validation.status = "PENDING_VALIDATION"
        /\ tasks[t].pc = "submitting"
        /\ mintCalls[tasks[t].sig] >= 1

-----------------------------------------------------------------------------
(* UnicityTokenValidator of part_004 (the verifier that re-fetches the     *)
(* transaction)                                                            *)

\* What connection.getTransaction(signature) gives the verifier: it rejects;
\* null; a transaction that failed (meta.err); one that does not involve the
\* bridge program; one without a parsable "Program data:" log; one whose log
\* carries the TokenLocked event of lock L1; one whose event carries another
\* amount than lock L1
TxAnswers ==
    {"THROWS", "NULL", "FAILED", "OTHER_PROGRAM", "NO_EVENT", "EVENT",
     "EVENT_OF_OTHER_AMOUNT"}

\* validateSolanaAnchor(proof): the check it records
validateSolanaAnchor(decoded) ==
    IF ~TxSignatureFormatOk(decoded.solanaTransaction.signature)
    THEN Check("Transaction Signature", "FAIL")
    ELSE IF decoded.solanaTransaction.blockHeight < 0
            \/ decoded.solanaTransaction.blockHeight > 1000000000
    THEN Check("Block Height", "FAIL")
    ELSE Check("Solana Anchor", "PASS")

\* Step 3 of validateToken (part_004): the checks it records against the
\* re-fetched transaction, and whether it leaves validateToken by a bare
\* `return;`.  actualLockEvent: the event in the logs of the transaction.
verifyAgainstTransaction(decoded, tx, actualLockEvent) ==
    LET exist == <<Check("Transaction Existence", "PASS")>>
        prog == Append(exist, Check("Bridge Program Verification", "PASS"))
    IN
    IF tx = "THROWS" \/ tx = "NULL"
    THEN [bare |-> FALSE, results |-> <<Check("Transaction Verification", "WARN")>>]
    ELSE IF tx = "FAILED"
    THEN [bare |-> FALSE, results |-> <<Check("Transaction Verification", "FAIL")>>]
    ELSE IF tx = "OTHER_PROGRAM"
    THEN [bare |-> TRUE,
          results |-> Append(exist, Check("Bridge Program Verification", "FAIL"))]
    ELSE IF tx = "NO_EVENT"
    THEN [bare |-> FALSE, results |-> Append(prog, Check("Lock Event Extraction", "WARN"))]
    ELSE [bare |-> FALSE,
          results |-> prog \o
              << Check("Lock Event Extraction", "PASS"),
                 Check("Cryptographic Verification",
                       IF actualLockEvent = decoded.lockEvent THEN "PASS" ELSE "FAIL") >>]

\* validateToken(tokenFilePath) of part_004: Some(verdict), or None when it
\* returns undefined.  Its validateSolanaLockingProof is, line for line,
\* consistentSolanaLockingProof.
validateToken_part004(ofile, tx, actualLockEvent) ==
    IF ofile = None
    THEN Some(Verdict(FALSE, "File not found", <<Check("File Access", "FAIL")>>))
    ELSE
    LET tokenJson == Val(ofile) IN
    IF ~tokenJson.sdkValid
    THEN Some(Verdict(FALSE, "TokenFactory validation failed",
                      <<Check("Token Deserialization", "FAIL")>>))
    ELSE
    LET r0 == <<Check("Token Deserialization", "PASS")>>
        c == consistentSolanaLockingProof(tokenJson.genesis.data.tokenData)
    IN IF ~c.ok
       THEN Some(Verdict(FALSE, "Invalid Solana locking proof", Append(r0, c.result)))
       ELSE LET decoded == Val(c.decoded)
                step3 == verifyAgainstTransaction(decoded, tx, actualLockEvent)
                rs == Append(Append(r0, c.result) \o step3.results,
                             validateSolanaAnchor(decoded))
            IN IF step3.bare THEN None
               ELSE Some(Verdict(overallValid(rs), "summary", rs))

-----------------------------------------------------------------------------
(* SpecVerify: validateToken on bounded token files                        *)

\* A token file as the verifier reads it: the payload of a mint for `gp` with
\* the field minterSignature (when `embedded` is not None), and the token id
\* derived from the commitment string and the signature `signedWith`, and the
\* token type derived from `bridgeProgramId`
signedTokenFile(gp, embedded, signedWith, sdkValid, bridgeProgramId) ==
    LET base == mintTokenData(gp)
        payload ==
            IF embedded = None THEN base
            ELSE [f \in DOMAIN base \cup {"minterSignature"} |->
                     IF f = "minterSignature" THEN Val(embedded) ELSE base[f]]
    IN [ sdkValid |-> sdkValid,
         genesis |-> [ data |->
           [ tokenData |-> HexEncode(JsonEncode(payload)),
             tokenId |-> expectedTokenIdHex(commitmentDataOf(gp), signedWith),
             tokenType |-> HexEncode(mintTokenType(bridgeProgramId)),
             salt |-> HexEncode(mintSalt(gp)) ] ] ]

\* The proof of lock L1 (transaction s1) with the given recipient and stored
\* transaction details
verifierProof(recipient, transaction) ==
    LET p == proofDataOf(lockEventOf("L1", recipient), "s1", 1, "H1", StFinalized(1))
        gp == Val(validateGenesisProof(p, RpcAllGood).proof)
    IN [gp EXCEPT !.solanaTransaction.transaction = transaction]

\* The inputs of a verifier run: the parts of the token file and the answer
\* of the origin chain
VerifierRecipients == {Bare(KeyA), KeyA, Rcp("", FALSE, 5, "word")}
VerifierTransactions ==
    {None, Some([signatures |-> <<>>]), Some([signatures |-> <<"s1">>]),
     Some([signatures |-> <<"sX">>])}
VerifierInputs ==
    [ recipient : VerifierRecipients,
      transaction : VerifierTransactions,
      embedded : {None} \cup {Some(sig) : sig \in MinterSignatures},
      signedWith : {"SIG_A", "SIG_B"},
      sdkValid : BOOLEAN,
      exists : {TRUE},
      rpc : VerifierRpcs,
      tx : TxAnswers,
      programId : {BRIDGE_PROGRAM_ID, "otherProgram"} ]
MissingFile(rpc) ==
    [ recipient |-> Bare(KeyA), transaction |-> None, embedded |-> None,
      signedWith |-> "SIG_A", sdkValid |-> FALSE, exists |-> FALSE, rpc |-> rpc,
      tx |-> "NULL", programId |-> BRIDGE_PROGRAM_ID ]

\* The TokenLocked event in the logs of transaction s1, as
\* extractLockEventFromTransaction returns it
ActualLockEvent == verifierProof(Bare(KeyA), None).lockEvent
actualLockEventOf(tx) ==
    IF tx = "EVENT_OF_OTHER_AMOUNT" THEN [ActualLockEvent EXCEPT !.amount = ToStr(1)]
    ELSE ActualLockEvent

\* The content of the file at tokenFilePath (None when it does not exist)
tokenFileAt(in) ==
    IF in.exists
    THEN Some(signedTokenFile(verifierProof(in.recipient, in.transaction),
                              in.embedded, in.signedWith, in.sdkValid, in.programId))
    ELSE None

InitVerify ==
    /\ vfInput \in {Some(in) : in \in VerifierInputs \cup {MissingFile(r) : r \in VerifierRpcs}}
    /\ vfVerdict = None /\ vfVerdict004 = None
    /\ wallet = None
    /\ IdleMonitor /\ IdleNetwork /\ IdleMint /\ IdleValidate /\ IdleLock /\ IdleParse /\ IdleLifecycle /\ IdleDemo

\* npm run validate-token <file>
VerifyCall ==
    /\ vfVerdict = None
    /\ vfVerdict' = Some(validateToken(tokenFileAt(Val(vfInput)), Val(vfInput).rpc))
    /\ UNCHANGED <<vfInput, vfVerdict004, monitorVars, networkVars, mintVars,
                   validateVars, lockVars, parseVars, lifecycleVars, demoVars>>

\* npm run validate-token <file> with the verifier of part_004
VerifyCall004 ==
    /\ vfVerdict004 = None
    /\ vfVerdict004' = Some(validateToken_part004(tokenFileAt(Val(vfInput)),
                                                  Val(vfInput).tx,
                                                  actualLockEventOf(Val(vfInput).tx)))
    /\ UNCHANGED <<vfInput, vfVerdict, monitorVars, networkVars, mintVars,
                   validateVars, lockVars, parseVars, lifecycleVars, demoVars>>

NextVerify == VerifyCall \/ VerifyCall004

SpecVerify == InitVerify /\ [][NextVerify]_vars

-----------------------------------------------------------------------------
(* SpecParse: parseTokenLockedEvent on bounded event buffers               *)

\* A byte holds ByteBits bits (8 in the code): with 2 the 8-byte integers of
\* the event stay within the integers of the checker, and the layout, the
\* split into two 4-byte halves and the sign of the high half are unchanged
ByteBits == 2
Byte == 2 ^ ByteBits
Word32 == Byte ^ 4
Word64 == Word32 * Word32

\* buffer.subarray(start, end) (end clamped to the length)
subarray(buffer, start, end) ==
    SubSeq(buffer, start + 1, IF end > Len(buffer) THEN Len(buffer) ELSE end)

\* buffer.readUInt32LE(offset), buffer.readInt32LE(offset)
readUInt32LE(buffer, offset) ==
    buffer[offset + 1] + buffer[offset + 2] * Byte + buffer[offset + 3] * Byte * Byte
        + buffer[offset + 4] * Byte * Byte * Byte
readInt32LE(buffer, offset) ==
    LET u == readUInt32LE(buffer, offset) IN
    IF u >= Word32 \div 2 THEN u - Word32 ELSE u

\* BigInt(low) + (BigInt(high) << 32n)
readU64LE(buffer) == readUInt32LE(buffer, 0) + readUInt32LE(buffer, 4) * Word32

\* A variant of readI64LE that reads the high half unsigned
readI64LE_UnsignedHigh(buffer) == readUInt32LE(buffer, 0) + readUInt32LE(buffer, 4) * Word32

\* BigInt(low) + (BigInt(high) << 32n), the high half read signed
readI64LE(buffer) == readUInt32LE(buffer, 0) + readInt32LE(buffer, 4) * Word32

\* TokenLocked event discriminator from the IDL
expectedDiscriminator == <<18, 238, 170, 48, 2, 120, 199, 224>>

\* A variant of the discriminator check that accepts every discriminator
discriminatorEquals_Any(eventData) == TRUE

\* discriminator.equals(expectedDiscriminator)
discriminatorEquals(eventData) == subarray(eventData, 0, 8) = expectedDiscriminator

\* Buffer.toString('hex'), new PublicKey(bytes).toString(), toString('utf8')
HexOf(bytes) == <<"hex", bytes>>
Base58Of(bytes) == <<"base58", bytes>>
Utf8Of(bytes) == <<"utf8", bytes>>

\* parseTokenLockedEvent(eventData): Some(event), or None for null (every
\* throw is caught and gives null)
parseTokenLockedEvent(eventData) ==
    IF Len(eventData) < 8 THEN None
    ELSE IF ~discriminatorEquals(eventData) THEN None
    ELSE IF 8 + 32 > Len(eventData) THEN None
    ELSE IF 40 + 32 > Len(eventData) THEN None
    ELSE IF 72 + 8 > Len(eventData) THEN None
    ELSE IF 80 + 4 > Len(eventData) THEN None
    ELSE
    LET recipientLength == readUInt32LE(eventData, 80)
        offset == 84 + recipientLength
    IN
    IF offset > Len(eventData) THEN None
    ELSE IF offset + 8 > Len(eventData) THEN None
    ELSE IF offset + 16 > Len(eventData) THEN None
    ELSE Some([ lockId |-> HexOf(subarray(eventData, 8, 40)),
                user |-> Base58Of(subarray(eventData, 40, 72)),
                amount |-> ToStr(readU64LE(subarray(eventData, 72, 80))),
                unicityRecipient |-> Utf8Of(subarray(eventData, 84, offset)),
                nonce |-> ToStr(readU64LE(subarray(eventData, offset, offset + 8))),
                timestamp |->
                    ToStr(readI64LE(subarray(eventData, offset + 8, offset + 16))) ])

\* The little-endian bytes of an unsigned and of a signed (two's complement)
\* integer, as the event log carries them
bytesLE(n, count) == [i \in 1..count |-> (n \div (Byte ^ (i - 1))) % Byte]
u64LE(n) == bytesLE(n, 8)
i64LE(n) == bytesLE(IF n < 0 THEN n + Word64 ELSE n, 8)

\* The binary encoding of a TokenLocked event with the given discriminator
\* and recipient length prefix
encodeEvent(e, discriminator, lengthPrefix) ==
    discriminator \o e.lockId \o e.user \o u64LE(e.amount) \o bytesLE(lengthPrefix, 4)
        \o e.unicityRecipient \o u64LE(e.nonce) \o i64LE(e.timestamp)

\* The strings the extractor returns for the fields of event e
fieldsOf(e) ==
    [ lockId |-> HexOf(e.lockId),
      user |-> Base58Of(e.user),
      amount |-> ToStr(e.amount),
      unicityRecipient |-> Utf8Of(e.unicityRecipient),
      nonce |-> ToStr(e.nonce),
      timestamp |-> ToStr(e.timestamp) ]

\* The lock events: amounts and nonces around the 4-byte boundary and at the
\* top of the range, timestamps over the signed range
ParseEvents ==
    [ lockId : {[i \in 1..32 |-> 7]},
      user : {[i \in 1..32 |-> 9]},
      amount : {0, 1, Word32 - 1, Word32, Word32 + 1, Word64 - 1},
      unicityRecipient : {<<65>>, <<65, 66, 67>>},
      nonce : {0, Word32},
      timestamp : {0 - (Word64 \div 2), 0 - Word32 - 1, 0 - 1, 0, Word32,
                   (Word64 \div 2) - 1} ]

\* The byte offsets at which a buffer holding event e may end
CutPoints(e) ==
    LET r == 84 + Len(e.unicityRecipient) IN
    {0, 7, 8, 39, 40, 71, 72, 79, 80, 83, 84, r - 1, r, r + 7, r + 8, r + 15, r + 16}

\* The buffers handed to the parser: the encoding of an event, possibly with
\* another discriminator, with a recipient length prefix that is `bump` too
\* large, or ending after `keep` bytes
ParseInput(e, k, d, b) == [event |-> e, keep |-> k, discriminatorOk |-> d, bump |-> b]
ParseInputs ==
    UNION {{ParseInput(e, k, TRUE, 0) : k \in CutPoints(e)}
               \cup {ParseInput(e, k, FALSE, 0) : k \in {8, 100 + Len(e.unicityRecipient)}}
               \cup {ParseInput(e, 100 + Len(e.unicityRecipient), TRUE, b) : b \in {1, 20}}
           : e \in ParseEvents}
bufferOf(in) ==
    subarray(encodeEvent(in.event,
                         IF in.discriminatorOk THEN expectedDiscriminator
                         ELSE <<18, 238, 170, 48, 2, 120, 199, 225>>,
                         Len(in.event.unicityRecipient) + in.bump),
             0, in.keep)

InitParse ==
    /\ pInput \in {Some(in) : in \in ParseInputs}
    /\ pResult = None
    /\ wallet = None
    /\ IdleMonitor /\ IdleNetwork /\ IdleMint /\ IdleValidate /\ IdleLock /\ IdleVerify
    /\ IdleLifecycle /\ IdleDemo

\* extractLockEventFromTransaction hands the decoded log to the parser
ParseCall ==
    /\ pResult = None
    /\ pResult' = Some(parseTokenLockedEvent(bufferOf(Val(pInput))))
    /\ UNCHANGED <<pInput, monitorVars, networkVars, mintVars, validateVars, lockVars,
                   verifyVars, lifecycleVars, demoVars>>

NextParse == ParseCall

SpecParse == InitParse /\ [][NextParse]_vars

-----------------------------------------------------------------------------
(* Claims about verifyBlockHash (checked under SpecValidate)               *)

\* verifyBlockHash was called and took its fallback path down to the age
\* test: no finalized block served, hash format valid, getSlot answered
vFallbackAge ==
    /\ vDone /\ vRes.blockCheck # "NOT_CALLED"
    /\ Val(vRpc).block \in {NULL, "THROW"}
    /\ BlockHashFormatOk(Val(vProof).blockHash)
    /\ Val(vRpc).finalizedSlot # None
vBlockAge == Val(Val(vRpc).finalizedSlot) - Val(vProof).blockHeight

\* C11: on the fallback path verifyBlockHash raises VALIDATION_PENDING for
\* every blockAge below 10 (negative ones included) and returns true for
\* every blockAge of 10 or more; it never returns false there
C11_PendingBoundary ==
    vFallbackAge =>
        /\ vBlockAge < 10 => vRes.blockCheck = "PENDING"
        /\ vBlockAge >= 10 => vRes.blockCheck = "TRUE"

\* C11 witness: at blockAge = 10 the fallback path returned true
C11_Witness ==
    vFallbackAge /\ vBlockAge = 10 /\ vRes.blockCheck = "TRUE"

-----------------------------------------------------------------------------
(* Claims about retries and polls of the monitor (checked under Spec)      *)

\* Task t enters processBridgeEvent and passes its replay check in this step
EntersProcessing(t) == tasks[t].pc = "fetching" /\ tasks'[t].pc = "validating"

\* C12 as stated: once validateGenesisProof has thrown for a signature, no
\* later poll or callback of the run processes that signature again
C12_NoRetryAfterFatalError ==
    [][\A t \in TaskIds : EntersProcessing(t) => tasks[t].sig \notin aborted]_vars


\* The signatures task t (a poll) has still to visit after its current one;
\* the steps in which its loop runs on (the listing was answered, or the
\* current signature is done with); the signatures the loop passes over in
\* such a step without handing them to processBridgeEvent
Range(q) == {q[i] : i \in DOMAIN q}
ToVisit(t) ==
    IF tasks[t].pc = "listing" THEN Range(ChainSignatures) ELSE Range(Tail(tasks[t].queue))
LoopMoves(t) ==
    IF tasks[t].pc = "listing"
    THEN tasks'[t] = pollAt(pollNext(ChainSignatures, processedTransactions,
                                     lastCheckedSlot))
    ELSE /\ tasks[t].pc \in {"fetching", "validating", "chain", "submitting", "including"}
         /\ tasks'[t].pc \in {"fetching", "done"}
         /\ tasks'[t].queue # tasks[t].queue
PassedOver(t) == ToVisit(t) \ Range(tasks'[t].queue)

\* C13 as stated: the loop of a poll passes over a signature of its window
\* only if that signature is in the processed set; every other one it hands
\* to processBridgeEvent, whatever was processed before
C13_PollSkipsOnlyProcessed ==
    [][\A t \in PollIds :
          LoopMoves(t) => PassedOver(t) \subseteq processedTransactions']_vars


\* The proof task t is processing embeds a transaction whose own primary
\* signature is not the transaction signature the proof claims
SignatureMismatch(t) ==
    /\ tasks[t].proof # None
    /\ Val(tasks[t].proof).transaction.fullTransaction # None
    /\ Val(Val(tasks[t].proof).transaction.fullTransaction).signatures[1]
          # Val(tasks[t].proof).transaction.signature

\* C14 as stated: processing of a lock event whose proof has a signature
\* mismatch never reaches the submission of a mint
C14_SignatureMismatchSubmitsNoMint ==
    \A t \in TaskIds : SignatureMismatch(t) => tasks[t].pc \notin {"submitting", "including"}


-----------------------------------------------------------------------------
(* Claims about the minted artifacts of a run (checked under Spec)         *)

\* The token files in the output directory, the payload decoded from one, the
\* lock transaction it is about and the proof its mint was called with (kept
\* in the genesis-record file the same mint wrote)
TokenFiles == {n \in DOMAIN outputFiles : n[1] = "unicity-token"}
PayloadOf(n) == Val(decodeTokenData(outputFiles[n].genesis.data.tokenData))
MintedProofOf(n) == outputFiles[<<"genesis-record", n[2]>>].proof

\* C15 as stated: when the recipient of the lock event is a string of 64 hex
\* characters, the minter the mint is called with is the tagged form, and so
\* is the recipient in the decoded payload of the token file
C15_ArtifactRecipientTagged ==
    \A n \in TokenFiles :
        LET sig == PayloadOf(n).solanaTransaction.signature
            recipient == TxEvent(sig).unicityRecipient
        IN IsHex64(recipient) =>
              /\ outputFiles[<<"token-owner", n[2]>>].minterPublicKey
                    = Rcp(SHA256_TAG, recipient.hex, recipient.len, recipient.id)
              /\ PayloadOf(n).lockEvent.unicityRecipient
                    = Rcp(SHA256_TAG, recipient.hex, recipient.len, recipient.id)

\* C17 as stated: the decoded payload of every token file minted from a proof
\* whose validation status is PENDING_VALIDATION carries that status
C17_PendingStatusInPayload ==
    \A n \in TokenFiles :
        MintedProofOf(n).validation.status = "PENDING_VALIDATION" =>
            /\ "validation" \in DOMAIN PayloadOf(n)
            /\ PayloadOf(n).validation.status = "PENDING_VALIDATION"


-----------------------------------------------------------------------------
(* Claims about the recipient tag (checked under SpecLock)                 *)

\* C16 as stated: the recipient of every lock the CLI accepted, stripped for
\* the contract call and restored by the monitor, is the recipient given to
\* the CLI; and the restore rule changes no string that is not 64 hex digits
C16_TagRoundTrip ==
    /\ lockPc = "restored" => Val(lockRecipient) = Val(lockArg)
    /\ \A r \in LockArgs : ~IsHex64(r) => restoreTag(r) = r


-----------------------------------------------------------------------------
(* Claims about validateToken (checked under SpecVerify)                   *)

vfIn == Val(vfInput)
vfOut == Val(vfVerdict)
Recorded(status) == \E i \in 1..Len(vfOut.results) : vfOut.results[i].status = status
RecordedCheck(name, status) ==
    \E i \in 1..Len(vfOut.results) : vfOut.results[i] = Check(name, status)

vfWellFormed ==
    /\ vfVerdict # None /\ vfIn.exists /\ vfIn.sdkValid
    /\ vfIn.recipient = Bare(KeyA)
    /\ vfIn.transaction = Some([signatures |-> <<"s1">>])
    /\ vfIn.embedded # None

\* C19 as stated: when the embedded minterSignature differs in one byte from
\* the signature the token id was derived with at mint, a FAIL is recorded
\* for the Minter Signature check and the verdict is INVALID
C19_AlteredSignatureFailsSignatureCheck ==
    (vfWellFormed /\ Val(vfIn.embedded) \in OneByteChanged(vfIn.signedWith)) =>
        /\ RecordedCheck("Minter Signature", "FAIL")
        /\ ~vfOut.valid

\* C20 as stated: the verdict is VALID only if the key recovered from the
\* embedded minterSignature is the key of the lock event's recipient
C20_ValidOnlyIfSignerIsRecipient ==
    (vfVerdict # None /\ vfOut.valid) =>
        recoveredPublicKey(Val(vfIn.embedded)) = vfIn.recipient.id


\* The verdict of the verifier of part_004, when it has returned one
vfReturned004 == vfVerdict004 # None /\ Val(vfVerdict004) # None
vfOut004 == Val(Val(vfVerdict004))

\* The origin chain reports the embedded transaction signature as existing,
\* without execution error and with a valid confirmation status
OriginReportsOk(rpc) ==
    /\ ~rpc.throws
    /\ rpc.status # None
    /\ Val(rpc.status).err = NULL
    /\ Val(rpc.status).confirmationStatus \in VALID_STATUSES

\* C21 as stated: a verifier returns VALID only if its re-query of the origin
\* chain found the transaction, without execution error and (where it asks
\* for the status) with a valid confirmation status; a missing or failed
\* transaction or a failed RPC call gives INVALID
C21_RequeryFailClosed ==
    /\ (vfVerdict # None /\ vfOut.valid) => OriginReportsOk(vfIn.rpc)
    /\ (vfReturned004 /\ vfOut004.valid) => vfIn.tx \notin {"THROWS", "NULL", "FAILED"}


\* C22 as stated: a verifier returns VALID only if the token type of the
\* file is the hash of the bridge tag and the configured bridge program id
C22_ValidOnlyForConfiguredProgram ==
    LET tokenType == Val(tokenFileAt(vfIn)).genesis.data.tokenType
        expected == HexEncode(mintTokenType(BRIDGE_PROGRAM_ID))
    IN /\ (vfVerdict # None /\ vfOut.valid) => tokenType = expected
       /\ (vfReturned004 /\ vfOut004.valid) => tokenType = expected


-----------------------------------------------------------------------------
(* Claims about parseTokenLockedEvent (checked under SpecParse)            *)

pIn == Val(pInput)
pOut == Val(pResult)

\* The buffer is not the complete encoding of its event: it is cut short, has
\* another discriminator, or a recipient length prefix that is too large
Malformed(in) ==
    \/ in.keep < Len(encodeEvent(in.event, expectedDiscriminator, 0))
    \/ ~in.discriminatorOk
    \/ in.bump > 0

\* C23: for a buffer shorter than 8 bytes, with another discriminator, or
\* ending before a field is complete, parseTokenLockedEvent returns null
C23_MalformedGivesNull ==
    (pResult # None /\ Malformed(pIn)) => pOut = None

\* C23 witness: a complete buffer whose recipient length prefix exceeds the
\* bytes that remain was parsed to null
C23_Witness ==
    /\ pResult # None /\ pOut = None
    /\ pIn.bump = 20 /\ pIn.discriminatorOk
    /\ pIn.keep = Len(encodeEvent(pIn.event, expectedDiscriminator, 0))

\* C24: parsing the complete encoding of a lock event returns the field
\* values of that event
C24_ExtractorRoundTrip ==
    (pResult # None /\ ~Malformed(pIn)) => pOut = Some(fieldsOf(pIn.event))

\* C24 witness: an event with an amount at the top of the range, a nonce of
\* Word32 and a negative timestamp was parsed back
C24_Witness ==
    /\ pResult # None /\ ~Malformed(pIn)
    /\ pIn.event.amount = Word64 - 1 /\ pIn.event.nonce = Word32
    /\ pIn.event.timestamp < 0
    /\ pOut = Some(fieldsOf(pIn.event))


\* ---------------------------------------------------------------------------
\* SpecLifecycle: the monitor's persistence over its life. The constructor
\* installs the signal handlers; start() awaits the start-up poll and only
\* then sets isRunning. Events are processed both during the start-up poll
\* and afterwards; a shutdown signal may arrive at any time.
\* ---------------------------------------------------------------------------

MaxEvents == 6

LifecycleSignatures == {"s1", "s2", "s3", "s4", "s5", "s6"}
LifecycleSlots == {11, 12}

\* new BridgeMonitor(): nothing was stored by an earlier run
InitLifecycle ==
    /\ signalled = FALSE
    /\ wallet = None
    /\ IdleMonitor /\ IdleNetwork /\ IdleMint /\ IdleValidate /\ IdleLock /\ IdleVerify
    /\ IdleParse /\ IdleDemo

\* start(): pollForMissedTransactions has returned; this.isRunning = true
StartupReturns ==
    /\ ~exited /\ ~isRunning
    /\ isRunning' = TRUE
    /\ UNCHANGED <<processedTransactions, lastCheckedSlot, processedEvents, exited,
                   savedFile, tasks, delivered, mintCalls, mintOutcomes, pendingRaised,
                   aborted, networkVars, monitorFixed>>

\* A variant of the bookkeeping without the save on every fifth event
EventProcessed_NoFlush(sig, slot) ==
    /\ ~exited /\ processedEvents < MaxEvents
    /\ processedEvents' = processedEvents + 1
    /\ processedTransactions' = processedTransactions \cup {sig}
    /\ lastCheckedSlot' = Max(lastCheckedSlot, slot)
    /\ UNCHANGED <<savedFile, isRunning, exited, tasks, delivered, mintCalls,
                   mintOutcomes, pendingRaised, aborted, networkVars, monitorFixed>>

\* processBridgeEvent reaches its bookkeeping for a transaction of the start-up
\* poll, of a periodic poll or of a log callback
EventProcessed(sig, slot) ==
    LET processed == processedTransactions \cup {sig}
        lastSlot == Max(lastCheckedSlot, slot)
        events == processedEvents + 1
    IN
    /\ ~exited /\ processedEvents < MaxEvents
    /\ processedEvents' = events
    /\ processedTransactions' = processed
    /\ lastCheckedSlot' = lastSlot
    /\ savedFile' = IF events % SAVE_EVERY = 0 THEN savedData(processed, lastSlot)
                    ELSE savedFile
    /\ UNCHANGED <<isRunning, exited, tasks, delivered, mintCalls, mintOutcomes,
                   pendingRaised, aborted, networkVars, monitorFixed>>

\* SIGINT or SIGTERM: the handler of setupGracefulShutdown runs. With
\* isRunning false its body is skipped, and as a handler is installed the
\* signal no longer terminates the process.
ShutdownSignal ==
    /\ ~exited
    /\ signalled' = TRUE
    /\ IF isRunning
       THEN /\ savedFile' = savedData(processedTransactions, lastCheckedSlot)
            /\ isRunning' = FALSE
            /\ exited' = TRUE
       ELSE UNCHANGED <<savedFile, isRunning, exited>>
    /\ UNCHANGED <<processedTransactions, lastCheckedSlot, processedEvents, tasks,
                   delivered, mintCalls, mintOutcomes, pendingRaised, aborted,
                   networkVars, wallet, mintVars, validateVars, lockVars, verifyVars,
                   parseVars, demoVars>>

NextLifecycle ==
    \/ StartupReturns
    \/ \E sig \in LifecycleSignatures, slot \in LifecycleSlots : EventProcessed(sig, slot)
    \/ ShutdownSignal

SpecLifecycle == InitLifecycle /\ [][NextLifecycle]_vars

\* C25: whenever a shutdown signal is delivered after construction, the start-up
\* poll included, the processed-transaction set and the last checked slot are
\* written to storage and the process exits.
C25_SignalSavesAndExits ==
    signalled =>
        /\ exited
        /\ savedFile = savedData(processedTransactions, lastCheckedSlot)


\* ---------------------------------------------------------------------------
\* SpecDemo: completeDemo, from the call of checkForRecentEvents on. A promise
\* is "pending" until the first resolve or reject; processEvent settles the
\* promise whose resolvers it was given.
\* ---------------------------------------------------------------------------

MaxExternal == 2

\* how processEvent ends: resolve(), reject(TOKEN_ALREADY_EXISTS) or
\* reject(error) for a failed validation, chain check or mint
ProcessEventOutcomes == {"resolved", "rejected: TOKEN_ALREADY_EXISTS", "rejected: error"}

\* resolve and reject of a settled promise have no effect
settle(promise, outcome) == IF promise = "pending" THEN outcome ELSE promise

demoOthers == <<monitorVars, networkVars, mintVars, validateVars, lockVars, verifyVars,
                parseVars, lifecycleVars>>

InitDemo ==
    /\ demoPc = "checkForRecentEvents" /\ recentEvent = None
    /\ eventProcessed = FALSE /\ freshEventProcessed = FALSE
    /\ eventPromise = "none" /\ freshEventPromise = "none"
    /\ needsFreshTransaction = FALSE /\ lockSolCalled = FALSE
    /\ external = 0 /\ ownEvent = "none"
    /\ wallet = None
    /\ IdleMonitor /\ IdleNetwork /\ IdleMint /\ IdleValidate /\ IdleLock /\ IdleVerify
    /\ IdleParse /\ IdleLifecycle

\* checkForRecentEvents returns; the executor of eventPromise arms the timer for
\* a recent event and subscribes the first listener; needsFreshTransaction is
\* set; completeDemo reaches `await eventPromise`
DemoCheckReturns(recent) ==
    /\ demoPc = "checkForRecentEvents"
    /\ recentEvent' = recent
    /\ eventPromise' = "pending"
    /\ needsFreshTransaction' = (recent = None)
    /\ demoPc' = "await eventPromise"
    /\ UNCHANGED <<eventProcessed, freshEventProcessed, freshEventPromise, lockSolCalled,
                   external, ownEvent, demoOthers>>

\* setTimeout(..., 100) of the recent event fires
DemoTimer(outcome) ==
    /\ demoPc \notin {"checkForRecentEvents", "exit(1)"}
    /\ recentEvent = Some("recent")
    /\ ~eventProcessed
    /\ eventProcessed' = TRUE
    /\ eventPromise' = settle(eventPromise, outcome)
    /\ recentEvent' = Some("recent, timer fired")
    /\ UNCHANGED <<demoPc, freshEventProcessed, freshEventPromise, needsFreshTransaction,
                   lockSolCalled, external, ownEvent, demoOthers>>

\* the log subscription delivers a lock event to the callbacks registered with
\* monitorLockEvents: the first listener, and the fresh listener once it exists
DeliverToListeners(first, fresh) ==
    /\ eventProcessed' = TRUE
    /\ eventPromise' = IF eventProcessed THEN eventPromise ELSE settle(eventPromise, first)
    /\ IF freshEventPromise = "none"
       THEN UNCHANGED <<freshEventProcessed, freshEventPromise>>
       ELSE /\ freshEventProcessed' = TRUE
            /\ freshEventPromise' = IF freshEventProcessed THEN freshEventPromise
                                    ELSE settle(freshEventPromise, fresh)

\* a lock transaction sent by someone else (demo-lock, another run) is observed
DemoExternalEvent(first, fresh) ==
    /\ demoPc \notin {"checkForRecentEvents", "exit(1)"}
    /\ external < MaxExternal
    /\ external' = external + 1
    /\ DeliverToListeners(first, fresh)
    /\ UNCHANGED <<demoPc, recentEvent, needsFreshTransaction, lockSolCalled, ownEvent,
                   demoOthers>>

\* the event of the lock transaction completeDemo sent itself is observed
DemoOwnEvent(first, fresh) ==
    /\ demoPc # "exit(1)"
    /\ ownEvent = "sent"
    /\ ownEvent' = "delivered"
    /\ DeliverToListeners(first, fresh)
    /\ UNCHANGED <<demoPc, recentEvent, needsFreshTransaction, lockSolCalled, external,
                   demoOthers>>

\* `await eventPromise` returns or throws; a fresh transaction, if needed, is
\* prepared: the fresh listener is subscribed and lockSol is called
DemoAwaitReturns ==
    LET needed == needsFreshTransaction \/ eventPromise = "rejected: TOKEN_ALREADY_EXISTS"
    IN
    /\ demoPc = "await eventPromise"
    /\ eventPromise \notin {"none", "pending"}
    /\ IF eventPromise = "rejected: error"
       THEN /\ demoPc' = "exit(1)"
            /\ UNCHANGED <<needsFreshTransaction, freshEventPromise, lockSolCalled>>
       ELSE /\ needsFreshTransaction' = needed
            /\ freshEventPromise' = IF needed THEN "pending" ELSE freshEventPromise
            /\ lockSolCalled' = needed
            /\ demoPc' = IF needed THEN "await lockSol" ELSE "waiting"
    /\ UNCHANGED <<recentEvent, eventProcessed, freshEventProcessed, eventPromise,
                   external, ownEvent, demoOthers>>

\* lockSol sends the transaction (its event can be observed before lockSol
\* returns), then returns the signature or throws
DemoLockSent ==
    /\ demoPc = "await lockSol" /\ ownEvent = "none"
    /\ ownEvent' = "sent"
    /\ UNCHANGED <<demoPc, recentEvent, eventProcessed, freshEventProcessed, eventPromise,
                   freshEventPromise, needsFreshTransaction, lockSolCalled, external,
                   demoOthers>>

DemoLockReturns(ok) ==
    /\ demoPc = "await lockSol"
    /\ ok => ownEvent # "none"
    /\ demoPc' = IF ok THEN "await freshEventPromise" ELSE "exit(1)"
    /\ UNCHANGED <<recentEvent, eventProcessed, freshEventProcessed, eventPromise,
                   freshEventPromise, needsFreshTransaction, lockSolCalled, external,
                   ownEvent, demoOthers>>

\* `await freshEventPromise` returns or throws
DemoFreshReturns ==
    /\ demoPc = "await freshEventPromise"
    /\ freshEventPromise \notin {"none", "pending"}
    /\ demoPc' = IF freshEventPromise = "resolved" THEN "waiting" ELSE "exit(1)"
    /\ UNCHANGED <<recentEvent, eventProcessed, freshEventProcessed, eventPromise,
                   freshEventPromise, needsFreshTransaction, lockSolCalled, external,
                   ownEvent, demoOthers>>

DemoProgramStep ==
    \/ \E recent \in {None, Some("recent")} : DemoCheckReturns(recent)
    \/ \E outcome \in ProcessEventOutcomes : DemoTimer(outcome)
    \/ \E first, fresh \in ProcessEventOutcomes : DemoOwnEvent(first, fresh)
    \/ DemoAwaitReturns
    \/ DemoLockSent
    \/ \E ok \in BOOLEAN : DemoLockReturns(ok)
    \/ DemoFreshReturns

NextDemo ==
    \/ DemoProgramStep
    \/ \E first, fresh \in ProcessEventOutcomes : DemoExternalEvent(first, fresh)

\* The program's own steps always get to run; lock transactions of other
\* parties may or may not occur.
SpecDemo == InitDemo /\ [][NextDemo]_vars /\ WF_vars(DemoProgramStep)

\* C26: when checkForRecentEvents finds no recent lock event, completeDemo goes
\* on to call lockSol without an externally generated lock event having to
\* arrive first: unless such an event arrives, lockSol is eventually called.
C26_LocksWithoutExternalEvent ==
    (demoPc = "await eventPromise" /\ recentEvent = None)
        ~> (lockSolCalled \/ external > 0)


-----------------------------------------------------------------------------
(* Claims about the outcome of validateGenesisProof (checked under        *)
(* SpecValidate)                                                          *)

vGenesis == Val(vRes.proof)

\* C27: a proof whose blockHash is empty is never rejected with a thrown
\* "Block hash verification failed"; validateGenesisProof ends pending or
\* accepted instead
C27_EmptyBlockHashNotFatal ==
    (vDone /\ Val(vProof).blockHash = "") =>
        ~(vRes.threw /\ vRes.error = "Block hash verification failed")

\* The ConfirmationRecord is non-null, its err is null and its
\* confirmationStatus is processed, confirmed or finalized
ConfirmationOk(ost) ==
    /\ ost # None
    /\ Val(ost).err = NULL
    /\ Val(ost).confirmationStatus \in VALID_STATUSES

\* C28: the signatureStatusVerified flag of a returned proof is true exactly
\* when the ConfirmationRecord is non-null, without error and of a valid
\* confirmationStatus, whether confirmations is a number or null
C28_ConfirmationFlagExact ==
    (vDone /\ ~vRes.threw) =>
        (vGenesis.validation.signatureStatusVerified
            <=> ConfirmationOk(Val(vProof).signatureStatus))

\* C29: a proof returned without pending status always has
\* signatureStatusVerified = true
C29_FailedConfirmationNotValidated ==
    (vDone /\ ~vRes.threw /\ vGenesis.validation.status # "PENDING_VALIDATION") =>
        vGenesis.validation.signatureStatusVerified

\* C30: a proof returned with blockVerified and signatureStatusVerified both
\* true has had the bridge program confirmed among the account keys of the
\* origin transaction
C30_ProgramInvocationConfirmed ==
    (/\ vDone /\ ~vRes.threw
     /\ vGenesis.validation.blockVerified
     /\ vGenesis.validation.signatureStatusVerified) =>
        Val(vRpc).tx = "INVOKES"


\* The structural defects of a lock event the specification names
StructurallyInvalid(event) ==
    \/ event.lockId.len # 32
    \/ event.user = NULL
    \/ IsEmptyStr(event.unicityRecipient)
    \/ event.amount <= 0
    \/ event.nonce < 0
    \/ event.timestamp <= 0

\* C31: a structurally invalid lock event makes validateGenesisProof throw
\* before the block check or any other oracle call, and no proof is returned;
\* an event with nonce 0 and all other fields valid passes the structural step
C31_StructuralCheckFirstAndFatal ==
    vDone =>
        /\ StructurallyInvalid(Val(vProof).event) =>
              /\ vRes.threw /\ vRes.proof = None
              /\ vRes.blockCheck = "NOT_CALLED"
        /\ (~StructurallyInvalid(Val(vProof).event) /\ Val(vProof).event.nonce = 0) =>
              /\ vRes.blockCheck # "NOT_CALLED"
              /\ vRes.error # "Invalid lock event"

\* C31 witness: a negative nonce was rejected before the block check, with
\* an RPC that would have confirmed everything
C31_Witness ==
    /\ vDone /\ Val(vProof).event.nonce = -1
    /\ Val(vRpc).block = Val(vProof).blockHash /\ Val(vRpc).tx = "INVOKES"
    /\ vRes.threw /\ vRes.blockCheck = "NOT_CALLED"


-----------------------------------------------------------------------------
(* Claims about the verifier's second look at the origin chain (checked    *)
(* under SpecVerify)                                                       *)

\* The origin transaction is available, its log yields a lock event, and that
\* event differs from the lock event the token file claims
ExtractedEventDiffers ==
    /\ vfIn.exists
    /\ vfIn.tx \in {"EVENT", "EVENT_OF_OTHER_AMOUNT"}
    /\ actualLockEventOf(vfIn.tx)
          # verifierProof(vfIn.recipient, vfIn.transaction).lockEvent

-----------------------------------------------------------------------------
(* SpecMinter: calls of UnicityTokenMinter.createBridgedToken              *)
(* (unicity-sdk-mint.ts)                                                   *)

\* The mock token of the catch block and the commitment it returns
mockTokenOf(gp, minterPublicKey, error) ==
    [ type |-> "BridgedSOL",
      id |-> gp.lockEvent.lockId,
      amount |-> gp.lockEvent.amount,
      minter |-> minterPublicKey,
      solanaTransaction |-> gp.solanaTransaction,
      commitment |-> Hash(<<gp.lockEvent.lockId, gp.solanaTransaction.signature,
                            minterPublicKey>>),
      status |-> IF gp.validation.status = "undefined" THEN "VALIDATED"
                 ELSE gp.validation.status,
      sdkError |-> error,
      fallbackMode |-> TRUE ]

\* The catch block of createBridgedToken: the mock token is written under the
\* token file's name and its commitment is returned
createBridgedTokenFallback(c, error) ==
    LET gp == calls[c].gp
        mock == mockTokenOf(gp, calls[c].minterPublicKey, error)
    IN
    /\ outputFiles' = writeFile(outputFiles, fileName("unicity-token", gp), mock)
    /\ calls' = [calls EXCEPT ![c].pc = "returned",
                              ![c].commitment = Some(mock.commitment),
                              ![c].error = error]

InitMinter ==
    /\ calls \in [CallIds -> [ gp : MintProofs, minterPublicKey : MintMinters,
                               pc : {"start"}, commitment : {None},
                               included : {FALSE}, error : {NULL} ]]
    /\ verdict = None /\ wallet = None
    /\ accepted = {} /\ outputFiles = <<>>
    /\ IdleMonitor /\ IdleValidate /\ IdleLock /\ IdleVerify /\ IdleParse
    /\ IdleLifecycle /\ IdleDemo

\* client.submitMintTransaction answers: the commitment, or it rejects
MinterSubmit(c, ok) ==
    /\ calls[c].pc = "start"
    /\ IF ok
       THEN /\ calls' = [calls EXCEPT ![c].pc = "including"]
            /\ accepted' = accepted \cup {<<c, calls[c].gp.lockEvent.lockId>>}
            /\ UNCHANGED outputFiles
       ELSE /\ createBridgedTokenFallback(c, "submitMintTransaction failed")
            /\ UNCHANGED accepted
    /\ UNCHANGED <<verdict, monitorVars, validateVars, lockVars, verifyVars, parseVars,
                   lifecycleVars, demoVars>>

\* waitInclusionProof resolves (owner file and token file are written, the
\* commitment is returned) or rejects
MinterIncluded(c, ok) ==
    /\ calls[c].pc = "including"
    /\ IF ok
       THEN LET gp == calls[c].gp
                commitment == <<"commitment", c, gp.lockEvent.lockId>>
                owner == [minterPublicKey |-> calls[c].minterPublicKey,
                          tokenId |-> gp.lockEvent.lockId,
                          commitment |-> commitment]
                token == [state |-> [lockId |-> gp.lockEvent.lockId],
                          genesis |-> [data |-> [tokenId |-> gp.lockEvent.lockId]]]
            IN /\ outputFiles' = writeFile(writeFile(outputFiles,
                                                     fileName("token-owner", gp), owner),
                                           fileName("unicity-token", gp), token)
               /\ calls' = [calls EXCEPT ![c].pc = "returned",
                                         ![c].commitment = Some(commitment),
                                         ![c].included = TRUE]
       ELSE createBridgedTokenFallback(c, "waitInclusionProof failed")
    /\ UNCHANGED <<verdict, accepted, monitorVars, validateVars, lockVars, verifyVars,
                   parseVars, lifecycleVars, demoVars>>

NextMinter ==
    \E c \in CallIds, ok \in BOOLEAN : MinterSubmit(c, ok) \/ MinterIncluded(c, ok)

SpecMinter == InitMinter /\ [][NextMinter]_vars

\* C34: no minting function returns a commitment or leaves a unicity-token
\* file unless the target network accepted the submission and gave an
\* inclusion proof
C34_MintFailsClosed ==
    /\ \A c \in CallIds :
          calls[c].commitment # None => calls[c].included
    /\ \A gp \in MintProofs :
          fileName("unicity-token", gp) \in DOMAIN outputFiles =>
              \E c \in CallIds :
                  /\ calls[c].gp.lockEvent.lockId = gp.lockEvent.lockId
                  /\ calls[c].included


\* The token file is what a mint signed with key A produced for a recipient
\* given as key A, in its tagged or in its bare form
vfMintedForKeyA ==
    /\ vfVerdict # None /\ vfIn.exists /\ vfIn.sdkValid
    /\ vfIn.recipient \in {KeyA, Bare(KeyA)}
    /\ vfIn.transaction = Some([signatures |-> <<"s1">>])
    /\ vfIn.embedded = Some("SIG_A") /\ vfIn.signedWith = "SIG_A"

\* C35: for an otherwise valid token file the recipient-related checks of
\* validateToken pass with the recipient in the "[SHA256]<64 hex>" form and in
\* the bare 64-hex form alike
C35_RecipientAcceptedInEitherForm ==
    vfMintedForKeyA =>
        /\ RecordedCheck("Minter Key Consistency", "PASS")
        /\ RecordedCheck("Minter Signature", "PASS")


\* C36: every run of validateToken resolves to a verdict object {valid,
\* summary}, never to undefined, also when the fetched transaction does not
\* involve the bridge program
C36_AlwaysStructuredVerdict ==
    vfVerdict004 # None => Val(vfVerdict004) # None


\* The step in which processBridgeEvent of task t ends in its error handler:
\* validateGenesisProof was awaited and the task neither goes on to the chain
\* validation nor is ended by a shutdown
EndsInErrorHandler(t) ==
    /\ tasks[t].pc = "validating"
    /\ tasks'[t].pc \notin {"validating", "chain", "exited"}

\* C37: a processBridgeEvent that ends in its error handler leaves
\* processedTransactions, lastCheckedSlot and processedEvents as they were,
\* writes no file, and returns normally: a callback is done, a poll goes on
\* with the rest of its loop
C37_ErrorPathLeavesReplayState ==
    [][\A t \in TaskIds :
          EndsInErrorHandler(t) =>
              /\ UNCHANGED <<processedTransactions, lastCheckedSlot, processedEvents,
                             savedFile, outputFiles>>
              /\ ~exited'
              /\ tasks'[t] = continueTask(t, processedTransactions, lastCheckedSlot)]_vars

\* A poll whose processBridgeEvent failed for one signature is working on the
\* next one, and the failed signature is not marked as processed
C37_Witness ==
    \E t \in PollIds, s \in aborted :
        /\ s \notin processedTransactions
        /\ tasks[t].pc \in {"fetching", "validating"}
        /\ tasks[t].queue # <<>> /\ Head(tasks[t].queue) # s
        /\ s = ChainSignatures[1] /\ tasks[t].sig = ChainSignatures[2]
        /\ processedEvents = 0 /\ delivered = {}


\* The signatures of the in-memory set that processed-transactions.json does
\* not hold
Unsaved ==
    processedTransactions \
        (IF savedFile = None THEN {} ELSE Val(savedFile).processedTransactions)

\* C38: in every state of a monitor run fewer than 5 signatures of
\* processedTransactions are missing from the persisted file
C38_BoundedUnsavedState == Cardinality(Unsaved) < 5

\* Six distinct transactions were processed: the fifth caused the save, the
\* sixth is the only one not yet in the file
C38_Witness ==
    /\ ~exited /\ processedEvents = 6
    /\ Cardinality(processedTransactions) = 6
    /\ savedFile # None /\ Cardinality(Val(savedFile).processedTransactions) = 5
    /\ Cardinality(Unsaved) = 1

====
